---------------------------- MODULE Spec2Model ----------------------------
(***************************************************************************)
(* A model of libimagequant (src/lib/libimagequant.c) and of the pngquant  *)
(* driver that calls it.                                                   *)
(*                                                                         *)
(* Numbers.  The C code computes in float and double.  The model computes  *)
(* in fixed point:                                                         *)
(*   - a colour channel c in [0,1] is the integer c*FS,                    *)
(*   - a squared colour difference or MSE e is the integer e*D2, D2=FS*FS, *)
(*   - a histogram weight w is the integer w*WS.                           *)
(* FS is a multiple of 255, so that byte/255 is exact.  Thresholds of the  *)
(* code that are multiples of 1/256 are compared by cross multiplication.  *)
(***************************************************************************)
EXTENDS Integers, Sequences, FiniteSets, Bags, TLC

(***************************************************************************)
(* Fixed-point scales.                                                     *)
(***************************************************************************)
FS == 1020

D2 == FS * FS

WS == 4

\* MAX_DIFF of pam.h: larger than every colour difference (at most 7*D2).
MAX_DIFF == 100000000

(***************************************************************************)
(* Arithmetic helpers.                                                     *)
(***************************************************************************)
Abs(x) == IF x < 0 THEN -x ELSE x

MAX(a, b) == IF a > b THEN a ELSE b

MIN(a, b) == IF a < b THEN a ELSE b

\* C's division of a signed value: rounds toward zero.
Quot(a, b) == IF a >= 0 THEN a \div b ELSE -((-a) \div b)

\* a*b/c for 0 <= a, 0 <= b, 0 < c without forming a*b.
MulDiv(a, b, c) == (a \div c) * b + ((a % c) * b) \div c

\* 1 << n
RECURSIVE Shl1(_)
Shl1(n) == IF n = 0 THEN 1 ELSE 2 * Shl1(n - 1)

\* floor(sqrt(n)) digit by digit in base 36: base plus the largest multiple
\* of step below 36 * step whose square with base is at most n.
ISqrtDigit(n, base, step) ==
    base + step * (CHOOSE d \in 0 .. 35 :
                      LET lo == base + step * d
                          hi == base + step * (d + 1)
                      IN  (lo = 0 \/ lo <= n \div lo) /\ hi > n \div hi)

ISqrt(n) == ISqrtDigit(n, ISqrtDigit(n, ISqrtDigit(n, 0, 1296), 36), 1)

Range(s) == {s[i] : i \in DOMAIN s}

SetMax(S) == CHOOSE x \in S : \A y \in S : y <= x

SetMin(S) == CHOOSE x \in S : \A y \in S : x <= y

\* The sum of f over the set S of integers: the positive terms counted as a
\* bag, less the negative terms counted as a bag.
SumOver(f, S) ==
    IF S = {} \/ f = <<>> THEN 0
    ELSE BagCardinality([x \in {y \in S : f[y] > 0} |-> f[x]])
         - BagCardinality([x \in {y \in S : f[y] < 0} |-> -f[x]])

SumSeq(s) == SumOver(s, DOMAIN s)

\* The function f itself.  TLC keeps a function expression unevaluated and
\* evaluates it anew at every application; the comparison makes it a table.
Tabulate(f) == IF f = <<>> THEN f ELSE f

\* TLC evaluates the argument of an operator where the operator first uses it,
\* inside whatever is being evaluated there.  Where a value is computed before
\* it is used, it is bound by a set constructor: the val in {F(x) : x \in {v}}
\* is F applied to the value of v.

(***************************************************************************)
(* Error codes and null pointers.                                          *)
(***************************************************************************)
LIQ_OK == "LIQ_OK"

LIQ_VALUE_OUT_OF_RANGE == "LIQ_VALUE_OUT_OF_RANGE"

LIQ_BUFFER_TOO_SMALL == "LIQ_BUFFER_TOO_SMALL"

NULL == <<>>

(***************************************************************************)
(* quality_to_mse.  pow(210+q, 1.2) has no integer form: QualityTable[q]   *)
(* is 2.5/pow(210.0+q,1.2) * (100.1-q)/100.0 * D2 rounded to the nearest   *)
(* integer, for q = 1..100.                                                *)
(***************************************************************************)
QualityTable ==
    << 4189, 4123, 4058, 3994, 3930, 3867, 3805, 3743, 3682, 3622,
       3562, 3503, 3445, 3387, 3330, 3273, 3217, 3162, 3107, 3053,
       2999, 2946, 2893, 2841, 2789, 2738, 2688, 2637, 2588, 2539,
       2490, 2442, 2394, 2347, 2300, 2254, 2208, 2162, 2117, 2072,
       2028, 1984, 1941, 1898, 1855, 1813, 1771, 1730, 1689, 1648,
       1608, 1568, 1528, 1489, 1450, 1412, 1373, 1336, 1298, 1261,
       1224, 1187, 1151, 1115, 1080, 1044, 1009, 975, 940, 906,
       872, 839, 805, 772, 740, 707, 675, 643, 611, 580,
       549, 518, 487, 457, 427, 397, 367, 338, 309, 280,
       251, 223, 194, 166, 139, 111, 84, 56, 29, 3 >>

quality_to_mse(quality) ==
    IF quality = 0 THEN MAX_DIFF ELSE QualityTable[quality]

(***************************************************************************)
(* struct liq_attr and its setters.  A setter is an operator from the      *)
(* attribute and the arguments to the returned code and the attribute      *)
(* after the call.                                                         *)
(***************************************************************************)
Returned(code, a) == [err |-> code, attr |-> a]

(***************************************************************************)
(* Logging (lines 87-112).  A message is its format and its integer        *)
(* arguments; the percentages and errors that are formatted from doubles   *)
(* are left out.  log is the sequence of the calls the callbacks of the    *)
(* caller received.                                                        *)
(***************************************************************************)
Message(fmt, args) == [fmt |-> fmt, args |-> args]

\* verbose_print and verbose_printf, for the messages msgs in turn: the
\* callback, when there is one, is called with the message and the user
\* info.
verbose_print(a, msgs, log) ==
    IF a.log_callback = NULL THEN log
    ELSE log \o [k \in 1 .. Len(msgs) |->
                    [ callback |-> a.log_callback, msg |-> msgs[k],
                      user_info |-> a.log_callback_user_info ]]

verbose_printf_flush(a, log) ==
    IF a.log_flush_callback = NULL THEN log
    ELSE Append(log, [ callback |-> a.log_flush_callback, msg |-> NULL,
                       user_info |-> a.log_flush_callback_user_info ])

\* liq_set_log_callback that also turns the dither map off.
liq_set_log_callback_resetting(a, callback, user_info, log) ==
    [ attr |-> [a EXCEPT !.log_callback = callback,
                         !.log_callback_user_info = user_info,
                         !.use_dither_map = FALSE],
      log |-> verbose_printf_flush(a, log) ]

liq_set_log_callback(a, callback, user_info, log) ==
    [ attr |-> [a EXCEPT !.log_callback = callback,
                         !.log_callback_user_info = user_info],
      log |-> verbose_printf_flush(a, log) ]

liq_set_log_flush_callback(a, callback, user_info) ==
    [a EXCEPT !.log_flush_callback = callback,
              !.log_flush_callback_user_info = user_info]

\* liq_set_quality without the test of target against minimum.
liq_set_quality_unordered(a, target, minimum) ==
    IF target < 0 \/ target > 100 \/ minimum < 0
    THEN Returned(LIQ_VALUE_OUT_OF_RANGE, a)
    ELSE Returned(LIQ_OK, [a EXCEPT !.target_mse = quality_to_mse(target),
                                    !.max_mse = quality_to_mse(minimum)])

liq_set_quality(a, target, minimum) ==
    IF target < 0 \/ target > 100 \/ target < minimum \/ minimum < 0
    THEN Returned(LIQ_VALUE_OUT_OF_RANGE, a)
    ELSE Returned(LIQ_OK, [a EXCEPT !.target_mse = quality_to_mse(target),
                                    !.max_mse = quality_to_mse(minimum)])

liq_set_max_colors(a, colors) ==
    IF colors < 2 \/ colors > 256
    THEN Returned(LIQ_VALUE_OUT_OF_RANGE, a)
    ELSE Returned(LIQ_OK, [a EXCEPT !.max_colors = colors])

\* liq_set_speed that also puts max_colors back to 256.
liq_set_speed_resetting(a, speed) ==
    IF speed < 1 \/ speed > 10
    THEN [err |-> LIQ_VALUE_OUT_OF_RANGE, attr |-> a]
    ELSE [err |-> LIQ_OK,
          attr |-> [a EXCEPT !.voronoi_iterations =
                                 MAX(8 - speed, 0) + (MAX(8 - speed, 0) * MAX(8 - speed, 0)) \div 2,
                             !.voronoi_iteration_limit = Shl1(23 - speed),
                             !.feedback_loop_trials = MAX(56 - 9 * speed, 0),
                             !.max_histogram_entries = Shl1(17) + Shl1(18) * (10 - speed),
                             !.min_posterization = IF speed >= 8 THEN 1 ELSE 0,
                             !.use_contrast_maps = (speed <= 7),
                             !.use_dither_map = (speed <= 5),
                             !.max_colors = 256]]

\* voronoi_iteration_limit is 1.0/(1<<(23-speed)): the field holds the
\* denominator 1<<(23-speed).
liq_set_speed(a, speed) ==
    IF speed < 1 \/ speed > 10
    THEN Returned(LIQ_VALUE_OUT_OF_RANGE, a)
    ELSE LET iterations == MAX(8 - speed, 0)
         IN  Returned(LIQ_OK,
                [a EXCEPT !.voronoi_iterations =
                              iterations + (iterations * iterations) \div 2,
                          !.voronoi_iteration_limit = Shl1(23 - speed),
                          !.feedback_loop_trials = MAX(56 - 9 * speed, 0),
                          !.max_histogram_entries =
                              Shl1(17) + Shl1(18) * (10 - speed),
                          !.min_posterization = IF speed >= 8 THEN 1 ELSE 0,
                          !.use_contrast_maps = (speed <= 7),
                          !.use_dither_map = (speed <= 5)])

\* min_opaque_val = min/255.0
liq_set_min_opacity(a, min) ==
    IF min < 0 \/ min > 255
    THEN Returned(LIQ_VALUE_OUT_OF_RANGE, a)
    ELSE Returned(LIQ_OK, [a EXCEPT !.min_opaque_val = (min * FS) \div 255])

liq_set_last_index_transparent(a, is_last) ==
    Returned(LIQ_OK, [a EXCEPT !.last_index_transparent = (is_last # 0)])

liq_attr_create_with_allocator(malloc, free) ==
    liq_set_speed(
        [ malloc |-> malloc, free |-> free,
          target_mse |-> 0, max_mse |-> MAX_DIFF,
          voronoi_iteration_limit |-> 0,
          min_opaque_val |-> FS,
          last_index_transparent |-> FALSE,
          use_contrast_maps |-> FALSE, use_dither_map |-> FALSE,
          max_colors |-> 256, max_histogram_entries |-> 0,
          min_posterization |-> 0, voronoi_iterations |-> 0,
          feedback_loop_trials |-> 0,
          log_callback |-> NULL, log_callback_user_info |-> NULL,
          log_flush_callback |-> NULL,
          log_flush_callback_user_info |-> NULL ], 3).attr

liq_attr_create == liq_attr_create_with_allocator("malloc", "free")

\* liq_attr_copy: the copy has the fields of the original.
liq_attr_copy(orig) == orig

(***************************************************************************)
(* Colour space (pam.h, which is not among the sources; modelled from the  *)
(* specification, section 4.1).  A byte pixel is [r, g, b, a] with bytes;  *)
(* an f_pixel is [r, g, b, a] in units of 1/FS.  The gamma table is        *)
(* process-wide: to_f_set_gamma installs it and to_f reads it.  A gamma is *)
(* an integer in units of 1/100000.  to_f raises a channel to the gamma of *)
(* the table and divides alpha by 255; to_rgb raises a channel to the      *)
(* inverse of the output gamma.  The gammas of the model are 0.45455 and   *)
(* 1.0; a table that was never set is all zero.                            *)
(***************************************************************************)
DefaultGamma == 45455

LinearGamma == 100000

Byte == 0 .. 255

Pixel(r, g, b, a) == [r |-> r, g |-> g, b |-> b, a |-> a]

\* FS * (v/255)^0.45455 for the bytes v = 0 .. 255, rounded.
GammaTable ==
    << 0, 82, 113, 135, 154, 171, 186, 199, 211, 223, 234, 244,
       254, 264, 273, 281, 290, 298, 306, 313, 321, 328, 335, 342,
       348, 355, 361, 368, 374, 380, 386, 391, 397, 403, 408, 414,
       419, 424, 429, 434, 439, 444, 449, 454, 459, 464, 468, 473,
       477, 482, 486, 491, 495, 499, 504, 508, 512, 516, 520, 524,
       528, 532, 536, 540, 544, 548, 552, 556, 559, 563, 567, 570,
       574, 578, 581, 585, 588, 592, 595, 599, 602, 606, 609, 612,
       616, 619, 622, 626, 629, 632, 635, 639, 642, 645, 648, 651,
       654, 657, 660, 663, 667, 670, 673, 676, 678, 681, 684, 687,
       690, 693, 696, 699, 702, 705, 707, 710, 713, 716, 719, 721,
       724, 727, 730, 732, 735, 738, 740, 743, 746, 748, 751, 754,
       756, 759, 761, 764, 766, 769, 772, 774, 777, 779, 782, 784,
       787, 789, 792, 794, 797, 799, 801, 804, 806, 809, 811, 813,
       816, 818, 821, 823, 825, 828, 830, 832, 835, 837, 839, 841,
       844, 846, 848, 851, 853, 855, 857, 860, 862, 864, 866, 868,
       871, 873, 875, 877, 879, 882, 884, 886, 888, 890, 892, 894,
       897, 899, 901, 903, 905, 907, 909, 911, 913, 915, 917, 920,
       922, 924, 926, 928, 930, 932, 934, 936, 938, 940, 942, 944,
       946, 948, 950, 952, 954, 956, 958, 960, 962, 964, 966, 967,
       969, 971, 973, 975, 977, 979, 981, 983, 985, 987, 989, 990,
       992, 994, 996, 998, 1000, 1002, 1003, 1005, 1007, 1009, 1011, 1013,
       1015, 1016, 1018, 1020 >>

to_f_set_gamma(gamma) == gamma

GammaLut(lut, v) ==
    IF lut = DefaultGamma THEN GammaTable[v + 1]
    ELSE IF lut = LinearGamma THEN (v * FS) \div 255
    ELSE 0

to_f(lut, px) ==
    [ r |-> GammaLut(lut, px.r), g |-> GammaLut(lut, px.g),
      b |-> GammaLut(lut, px.b), a |-> (px.a * FS) \div 255 ]

\* A channel back to a byte: x*256 rounded down, clamped to 0..255.
ToByte(x) == IF x * 256 >= 255 * FS THEN 255 ELSE IF x <= 0 THEN 0 ELSE (x * 256) \div FS

\* The largest byte whose table entry is at most x (0 when none is), digit
\* by digit in base 16.
GammaDigit(x, base, step) ==
    base + step * (CHOOSE d \in 0 .. 15 :
                      (d = 0 \/ GammaTable[base + step * d + 1] <= x)
                      /\ (d = 15 \/ GammaTable[base + step * (d + 1) + 1] > x))

GammaSearch(x) == GammaDigit(x, GammaDigit(x, 0, 16), 1)

\* A channel raised to 1/gamma, as a byte.
GammaInv(gamma, x) ==
    IF gamma = DefaultGamma THEN GammaSearch(x) ELSE ToByte(x)

to_rgb(gamma, px) ==
    [ r |-> GammaInv(gamma, px.r), g |-> GammaInv(gamma, px.g),
      b |-> GammaInv(gamma, px.b), a |-> ToByte(px.a) ]

\* d2 = (dr2 + dg2 + db2) * a2 + da2 * 4, a2 the alpha of the second colour
\* (the palette's).  The result is in units of 1/D2.
colordifference(px, py) ==
    LET dr == px.r - py.r
        dg == px.g - py.g
        db == px.b - py.b
        da == px.a - py.a
        rgb == dr * dr + dg * dg + db * db
    IN  MulDiv(rgb, MIN(MAX(py.a, 0), FS), FS) + 4 * da * da

\* x < 1.0/256.0 and x < 255.0/256.0 for a channel x.
Below1_256(x) == x * 256 < FS

Below255_256(x) == x * 256 < 255 * FS

(***************************************************************************)
(* Maps of floats, one per pixel: functions on 0 .. cols*rows-1.           *)
(* max3, min3 and blur are blur.c (not among the sources): a 3x3 maximum,  *)
(* a 3x3 minimum and a separable 3-tap mean, the border pixels repeated.   *)
(***************************************************************************)
Clamp(x, lo, hi) == IF x < lo THEN lo ELSE IF x > hi THEN hi ELSE x

Neighbours3(i, cols, rows) ==
    LET r == i \div cols
        c == i % cols
    IN  { Clamp(r + dr, 0, rows - 1) * cols + Clamp(c + dc, 0, cols - 1) :
            dr \in {-1, 0, 1}, dc \in {-1, 0, 1} }

max3(src, cols, rows) ==
    Tabulate([i \in DOMAIN src |-> SetMax({src[k] : k \in Neighbours3(i, cols, rows)})])

min3(src, cols, rows) ==
    Tabulate([i \in DOMAIN src |-> SetMin({src[k] : k \in Neighbours3(i, cols, rows)})])

blur(src, cols, rows) ==
    LET horiz == Tabulate([i \in DOMAIN src |->
                    LET r == i \div cols
                        c == i % cols
                    IN  Quot(src[r * cols + Clamp(c - 1, 0, cols - 1)] + src[i]
                             + src[r * cols + Clamp(c + 1, 0, cols - 1)], 3)])
    IN  Tabulate([i \in 0 .. cols * rows - 1 |->
            LET r == i \div cols
                c == i % cols
            IN  Quot(horiz[Clamp(r - 1, 0, rows - 1) * cols + c] + horiz[i]
                     + horiz[Clamp(r + 1, 0, rows - 1) * cols + c], 3)])

(***************************************************************************)
(* struct liq_image.  rows is the caller's pixel grid, rows[row][col] with *)
(* row in 0..height-1 and col in 0..width-1; noise, edges and dither_map   *)
(* are NULL or maps.                                                       *)
(***************************************************************************)
\* Line 762: almost_opaque_val = min_opaque_val * 169.f/256.f.
AlmostOpaque(min_opaque_val) == (min_opaque_val * 169) \div 256

\* The divisor of line 775: min_opaque_val - almost_opaque_val.
ModifyAlphaDivisor(min_opaque_val) == min_opaque_val - AlmostOpaque(min_opaque_val)

\* The alpha written by modify_alpha for one pixel; nan is the byte the
\* build produces for the conversion of a NaN (0.0/0.0) to unsigned char.
modify_alpha_px(lut, gamma, srcpx, min_opaque_val, nan) ==
    LET almost_opaque_val == AlmostOpaque(min_opaque_val)
        almost_opaque_val_int == (almost_opaque_val * 255) \div FS
        px == to_f(lut, srcpx)
        num == (px.a - almost_opaque_val) * (FS - almost_opaque_val)
        den == ModifyAlphaDivisor(min_opaque_val)
        al == IF den = 0 THEN (IF num > 0 THEN FS ELSE -1)
              ELSE MIN(almost_opaque_val + Quot(num, den), FS)
    IN  IF srcpx.a >= almost_opaque_val_int
        THEN [srcpx EXCEPT !.a = IF den = 0 /\ num = 0 THEN nan
                                 ELSE to_rgb(gamma, [px EXCEPT !.a = al]).a]
        ELSE srcpx

modify_alpha(img, min_opaque_val, nan) ==
    LET lut == to_f_set_gamma(img.gamma)
    IN  [img EXCEPT
            !.rows = Tabulate([row \in 0 .. img.height - 1 |->
                        Tabulate([col \in 0 .. img.width - 1 |->
                            modify_alpha_px(lut, img.gamma, img.rows[row][col],
                                            min_opaque_val, nan)])]),
            !.modified = TRUE]

\* The noise and edges values of pixel (j, i) before the morphology.
contrast_px(lut, apixels, cols, rows, j, i) ==
    LET \* the largest second difference of the four channels around curr
        Diff(prev, curr, next) ==
            MAX(MAX(Abs(prev.a + next.a - curr.a * 2), Abs(prev.r + next.r - curr.r * 2)),
                MAX(Abs(prev.g + next.g - curr.g * 2), Abs(prev.b + next.b - curr.b * 2)))
        Sq(z) == (z * z) \div FS
        Z(horiz, vert, edge) ==
            Sq(Sq(FS - MAX(edge - Quot(Abs(horiz - vert), 2), MIN(horiz, vert))))
        Maps(z, edge) == [noise |-> z, edges |-> FS - edge]
        Edge(horiz, vert, edge) == Maps(Z(horiz, vert, edge), edge)
        Both(horiz, vert) == Edge(horiz, vert, MAX(horiz, vert))
        At(curr) ==
            Both(Diff(to_f(lut, apixels[j][MAX(i - 1, 0)]), curr,
                      to_f(lut, apixels[j][MIN(cols - 1, i + 1)])),
                 Diff(to_f(lut, apixels[MIN(rows - 1, j + 1)][i]), curr,
                      to_f(lut, apixels[IF j > 1 THEN j - 1 ELSE 0][i])))
    IN  At(to_f(lut, apixels[j][i]))

\* The map src after the steps of blur.c named in steps, in their order.
RECURSIVE Morphology(_, _, _, _)
Morphology(src, steps, cols, rows) ==
    IF steps = <<>> \/ src = <<>> THEN src
    ELSE Morphology(IF Head(steps) = "max3" THEN max3(src, cols, rows)
                    ELSE IF Head(steps) = "min3" THEN min3(src, cols, rows)
                    ELSE blur(src, cols, rows),
                    Tail(steps), cols, rows)

\* The noise and edges maps made from the per-pixel values raw.
contrast_morph(img, raw, cols, rows) ==
    LET Merge(noise, e1) ==
            [img EXCEPT !.noise = noise,
                        !.edges = Tabulate([k \in 0 .. cols * rows - 1 |-> MIN(noise[k], e1[k])])]
    IN  CHOOSE val \in {Merge(x, y) :
            x \in {Morphology(Tabulate([k \in 0 .. cols * rows - 1 |-> raw[k].noise]), <<"max3", "max3", "blur", "max3", "min3", "min3", "min3">>, cols, rows)},
            y \in {Morphology(Tabulate([k \in 0 .. cols * rows - 1 |-> raw[k].edges]), <<"min3", "max3">>, cols, rows)}} : TRUE

contrast_maps(img) ==
    LET Morph(raw) == contrast_morph(img, raw, img.width, img.height)
    IN  CHOOSE val \in {Morph(x) : x \in
            {Tabulate([k \in 0 .. img.width * img.height - 1 |-> contrast_px(to_f_set_gamma(img.gamma), img.rows, img.width, img.height, k \div img.width, k % img.width)])}} : TRUE

LIQ_OWN_ROWS == 4

LIQ_OWN_PIXELS == 8

HasFlag(flags, f) == (flags \div f) % 2 = 1

\* The check of the gamma with the upper bound left out.
liq_image_create_rgba_rows_any_gamma(a, rows, width, height, gamma, ownership_flags, nan) ==
    IF width <= 0 \/ height <= 0 \/ gamma < 0 \/ a = NULL \/ rows = NULL
    THEN NULL
    ELSE [ width |-> width, height |-> height, gamma |-> gamma, rows |-> rows,
           pixels |-> NULL, noise |-> NULL, edges |-> NULL, dither_map |-> NULL,
           modified |-> FALSE,
           free_rows |-> HasFlag(ownership_flags, LIQ_OWN_ROWS),
           free_pixels |-> HasFlag(ownership_flags, LIQ_OWN_PIXELS) ]

\* liq_image_create_rgba_rows; the result is NULL or the image.  rows = NULL
\* stands for a null row vector, attr = NULL for a null attribute.
liq_image_create_rgba_rows(a, rows, width, height, gamma, ownership_flags, nan) ==
    IF width <= 0 \/ height <= 0 \/ gamma < 0 \/ gamma > 100000
       \/ a = NULL \/ rows = NULL
    THEN NULL
    ELSE LET img0 == [ width |-> width, height |-> height,
                       gamma |-> IF gamma # 0 THEN gamma ELSE DefaultGamma,
                       rows |-> rows,
                       pixels |-> IF HasFlag(ownership_flags, LIQ_OWN_PIXELS)
                                  THEN rows[0] ELSE NULL,
                       noise |-> NULL, edges |-> NULL, dither_map |-> NULL,
                       modified |-> FALSE,
                       free_rows |-> HasFlag(ownership_flags, LIQ_OWN_ROWS),
                       free_pixels |-> HasFlag(ownership_flags, LIQ_OWN_PIXELS) ]
             img1 == IF a.min_opaque_val * 255 <= 254 * FS
                     THEN modify_alpha(img0, a.min_opaque_val, nan) ELSE img0
         IN  IF a.use_contrast_maps /\ img1.width >= 4 /\ img1.height >= 4
             THEN contrast_maps(img1) ELSE img1

\* What liq_image_create_rgba_rows logs when it returned img: line 266.
liq_image_create_log(a, img) ==
    IF img # NULL /\ a.log_callback # NULL /\ a.min_opaque_val * 255 <= 254 * FS
    THEN <<Message("  Working around IE6 bug by making image less transparent...", <<>>)>>
    ELSE <<>>

\* liq_image_create_rgba; bitmap is the sequence of the pixels, row after
\* row, or NULL.  Row i starts at pixel width * i of the bitmap (lines
\* 281-285); the flags reach liq_image_create_rgba_rows with LIQ_OWN_ROWS
\* set.
liq_image_create_rgba(a, bitmap, width, height, gamma, ownership_flags, nan) ==
    IF width <= 0 \/ height <= 0 \/ gamma < 0 \/ gamma > 100000
       \/ a = NULL \/ bitmap = NULL \/ HasFlag(ownership_flags, LIQ_OWN_ROWS)
    THEN NULL
    ELSE liq_image_create_rgba_rows(a,
             [row \in 0 .. height - 1 |->
                 [col \in 0 .. width - 1 |-> bitmap[width * row + col + 1]]],
             width, height, gamma, ownership_flags + LIQ_OWN_ROWS, nan)

(***************************************************************************)
(* Histogram (pam.c, not among the sources; specification, section 4.3).   *)
(* A histogram is a sequence of entries [acolor, perceptual_weight,        *)
(* adjusted_weight], one per posterized colour, in the order of the first  *)
(* pixel of each colour.                                                   *)
(***************************************************************************)
\* The members of the set S of integers in ascending order.
SeqOfSetAsc(S) ==
    [i \in 1 .. Cardinality(S) |->
        CHOOSE x \in S : Cardinality({y \in S : y < x}) = i - 1]

\* The low ignorebits bits of a channel stripped.
Posterize(v, ignorebits) == (v \div Shl1(ignorebits)) * Shl1(ignorebits)

PosterizePx(px, ignorebits) ==
    [ r |-> Posterize(px.r, ignorebits), g |-> Posterize(px.g, ignorebits),
      b |-> Posterize(px.b, ignorebits), a |-> Posterize(px.a, ignorebits) ]

\* The posterized colour of pixel k (row-major, from 0).
HashKeys(img, ignorebits) ==
    Tabulate([k \in 0 .. img.width * img.height - 1 |->
        PosterizePx(img.rows[k \div img.width][k % img.width], ignorebits)])

\* pam_computeacolorhash succeeds when the colours fit the table.
pam_computeacolorhash(img, maxcolors, ignorebits) ==
    Cardinality(Range(HashKeys(img, ignorebits))) <= maxcolors

\* The weight of pixel k: 1 + 15*noise with a noise map, else 1.
PixelWeight(img, k) ==
    IF img.noise = NULL THEN WS ELSE WS + (15 * WS * img.noise[k]) \div FS

pam_acolorhashtoacolorhist(img, ignorebits, gamma) ==
    LET n == img.width * img.height
        Hist(keys, order, wt, lut) ==
            Tabulate([e \in 1 .. Len(order) |->
                LET w == SumOver(wt, {k \in 0 .. n - 1 : keys[k] = keys[order[e]]})
                IN  [ acolor |-> to_f(lut, keys[order[e]]),
                      perceptual_weight |-> w, adjusted_weight |-> w ]])
        \* first: the pixels that are the first of their colour
        Keys(keys) ==
            Hist(keys,
                 SeqOfSetAsc({k \in 0 .. n - 1 : \A j \in 0 .. k - 1 : keys[j] # keys[k]}),
                 Tabulate([k \in 0 .. n - 1 |-> PixelWeight(img, k)]),
                 to_f_set_gamma(gamma))
    IN  Keys(HashKeys(img, ignorebits))

\* The ignorebits at which the colours fit max_histogram_entries.
RECURSIVE HistIgnoreBits(_, _, _)
HistIgnoreBits(img, maxcolors, ignorebits) ==
    IF pam_computeacolorhash(img, maxcolors, ignorebits)
    THEN ignorebits
    ELSE HistIgnoreBits(img, maxcolors, ignorebits + 1)

\* What get_histogram logs: line 735 once for each bit added to ignorebits,
\* then line 748 with the size of the histogram.
get_histogram_log(img, options) ==
    IF options.log_callback = NULL THEN <<>>
    ELSE LET bits == HistIgnoreBits(img, options.max_histogram_entries,
                                    options.min_posterization)
         IN  [k \in 1 .. bits - options.min_posterization |->
                 Message("  too many colors! Scaling colors to improve clustering...", <<>>)]
             \o <<Message("  made histogram...%d colors found",
                          <<Len(pam_acolorhashtoacolorhist(img, bits, img.gamma))>>)>>

\* get_histogram posterizing by one bit more than the speed asks for.
get_histogram_posterized(img, options) ==
    pam_acolorhashtoacolorhist(
        img, HistIgnoreBits(img, options.max_histogram_entries,
                            options.min_posterization + 1), img.gamma)

get_histogram(img, options) ==
    pam_acolorhashtoacolorhist(
        img, HistIgnoreBits(img, options.max_histogram_entries,
                            options.min_posterization), img.gamma)

(***************************************************************************)
(* Weights in sums.  The sums of viter.c and mediancut.c are float sums;   *)
(* here the weights of one sum are first divided by a common power of two  *)
(* that brings the largest to at most WMax, which changes no weighted mean *)
(* beyond rounding and keeps the products in range.                        *)
(***************************************************************************)
WMax == 4096

RECURSIVE WShift(_)
WShift(w) == IF w <= WMax THEN 1 ELSE 2 * WShift(w \div 2)

NormWeights(ws) ==
    LET sh == WShift(SetMax(Range(ws) \cup {1}))
    IN  Tabulate([i \in DOMAIN ws |-> MAX(1, ws[i] \div sh)])

(***************************************************************************)
(* A colormap is a sequence of entries [acolor, popularity]; the entry of  *)
(* C index i is the (i+1)th.                                               *)
(***************************************************************************)
Colors(map) == Len(map)

(***************************************************************************)
(* Nearest-colour search (nearest.c, not among the sources; specification  *)
(* section 4.5).  The result is [idx, diff], idx a C index.                *)
(***************************************************************************)
ArgMin(f, S) ==
    CHOOSE i \in S : \A j \in S : f[i] < f[j] \/ (f[i] = f[j] /\ i <= j)

nearest_search(map, px, min_opaque_val) ==
    LET all == 1 .. Len(map)
        opaque == {i \in all : map[i].acolor.a >= FS}
        cand == IF px.a > min_opaque_val /\ opaque # {} THEN opaque ELSE all
        al == Tabulate([i \in all |-> map[i].acolor.a])
        Found(d, best) == [idx |-> best - 1, diff |-> d[best]]
        Among(d) == Found(d, IF Below1_256(px.a) THEN ArgMin(al, all) ELSE ArgMin(d, cand))
    IN  CHOOSE val \in {Among(x) : x \in
            {Tabulate([i \in all |-> colordifference(px, map[i].acolor)])}} : TRUE

(***************************************************************************)
(* Voronoi iteration (viter.c, not among the sources; specification        *)
(* sections 4.6 and 4.8).  An accumulator per palette entry holds the sums *)
(* of the weighted channels and the sum of the weights.                    *)
(***************************************************************************)
\* The accumulators after viter_init and viter_update_color(acolor, value,
\* match) of every item j of S: entry match + 1 gathers the weighted channels
\* and the weights of the items matched to it.
viter_update_colors(map, items, S) ==
    Tabulate([i \in 1 .. Len(map) |->
        LET mine == {j \in S : items[j].match = i - 1}
        IN  [ r |-> SumOver([j \in S |-> items[j].acolor.r * items[j].value], mine),
              g |-> SumOver([j \in S |-> items[j].acolor.g * items[j].value], mine),
              b |-> SumOver([j \in S |-> items[j].acolor.b * items[j].value], mine),
              a |-> SumOver([j \in S |-> items[j].acolor.a * items[j].value], mine),
              total |-> SumOver([j \in S |-> items[j].value], mine) ]])

viter_finalize(map, average_color) ==
    Tabulate([i \in 1 .. Len(map) |->
        LET s == average_color[i]
        IN  IF s.total = 0 THEN map[i]
            ELSE [map[i] EXCEPT !.acolor =
                    [ r |-> Quot(s.r, s.total), g |-> Quot(s.g, s.total),
                      b |-> Quot(s.b, s.total), a |-> Quot(s.a, s.total) ]]])

\* adjust_histogram_callback multiplying the adjusted weight alone.
adjust_histogram_callback_scaling(item, diff) ==
    [item EXCEPT !.adjusted_weight = MulDiv(item.adjusted_weight, ISqrt(D2 + diff), FS)]

\* adjust_histogram_callback: sqrtf(1.f+diff) is ISqrt(D2 + diff)/FS.
adjust_histogram_callback(item, diff) ==
    [item EXCEPT !.adjusted_weight =
        MulDiv(item.perceptual_weight + item.adjusted_weight,
               ISqrt(D2 + diff), FS)]

\* One iteration: the colormap after it, the error, the histogram after the
\* callback (callback is TRUE when adjust_histogram_callback is passed), and
\* the diff of each entry of the histogram from its nearest colour.
viter_do_iteration(hist, map, min_opaque_val, callback) ==
    LET Sums(w, total, match) ==
            [ map |-> viter_finalize(map,
                          viter_update_colors(map,
                              [j \in 1 .. Len(hist) |->
                                  [acolor |-> hist[j].acolor, value |-> w[j],
                                   match |-> match[j].idx]],
                              1 .. Len(hist))),
              error |-> SumSeq(Tabulate([j \in 1 .. Len(hist) |->
                            MulDiv(match[j].diff, w[j], total)])),
              diff |-> Tabulate([j \in 1 .. Len(hist) |-> match[j].diff]),
              hist |-> IF callback
                       THEN Tabulate([j \in 1 .. Len(hist) |->
                                adjust_histogram_callback(hist[j], match[j].diff)])
                       ELSE hist ]
        Weighted(w) ==
            LET Matched(total, match) == Sums(w, total, match)
            IN  CHOOSE val \in {Matched(x, y) :
                    x \in {SumSeq(w)},
                    y \in {Tabulate([j \in 1 .. Len(hist) |-> nearest_search(map, hist[j].acolor, min_opaque_val)])}} : TRUE
    IN  CHOOSE val \in {Weighted(x) : x \in
            {NormWeights(Tabulate([j \in 1 .. Len(hist) |-> hist[j].adjusted_weight]))}} : TRUE

(***************************************************************************)
(* Median cut (mediancut.c, not among the sources; specification, section  *)
(* 4.4).  A box is a set of histogram indices.  The cut starts from one    *)
(* box and splits one box at a time: a box whose variance exceeds the      *)
(* per-box acceptance max_mse before any box that does not, the largest    *)
(* variance first; a box of one entry cannot be split.  It stops at        *)
(* newcolors boxes, when no box can be split, or when the error of the     *)
(* boxes is within target_mse.                                             *)
(***************************************************************************)
Channels == <<"r", "g", "b", "a">>

BoxTotal(w, box) == SumOver(w, box)

\* The weighted centroid of a box.
BoxCentroid(hist, w, box) ==
    LET Mean(t) ==
            [ r |-> SumOver([j \in box |-> hist[j].acolor.r * w[j]], box) \div t,
              g |-> SumOver([j \in box |-> hist[j].acolor.g * w[j]], box) \div t,
              b |-> SumOver([j \in box |-> hist[j].acolor.b * w[j]], box) \div t,
              a |-> SumOver([j \in box |-> hist[j].acolor.a * w[j]], box) \div t ]
    IN  CHOOSE val \in {Mean(x) : x \in
            {BoxTotal(w, box)}} : TRUE

\* The weighted variance of channel c in a box, as a mean over the box.
ChannelVariance(hist, w, box, c) ==
    LET Spread(t, m) ==
            SumOver([j \in box |->
                        MulDiv((hist[j].acolor[c] - m) * (hist[j].acolor[c] - m),
                               w[j], t)], box)
        Mean(t, sum) == Spread(t, sum \div t)
    IN  CHOOSE val \in {Mean(x, y) :
            x \in {BoxTotal(w, box)},
            y \in {SumOver([j \in box |-> hist[j].acolor[c] * w[j]], box)}} : TRUE

\* The weighted variance of a box as its share of the error of the whole
\* histogram, whose weights sum to total.
BoxVariance(hist, w, total, box) ==
    LET Around(cen) ==
            SumOver([j \in box |->
                        MulDiv(colordifference(hist[j].acolor, cen), w[j], total)],
                    box)
    IN  CHOOSE val \in {Around(x) : x \in
            {BoxCentroid(hist, w, box)}} : TRUE

\* The channel of largest variance, the first of r, g, b, a among equals.
SplitChannel(hist, w, box) ==
    LET Widest(v) ==
            Channels[CHOOSE i \in 1 .. 4 :
                        \A j \in 1 .. 4 : v[i] > v[j] \/ (v[i] = v[j] /\ i <= j)]
    IN  CHOOSE val \in {Widest(x) : x \in
            {Tabulate([k \in 1 .. 4 |-> ChannelVariance(hist, w, box, Channels[k])])}} : TRUE

\* The entries of a box in ascending order of a channel (then of index).
SortBox(hist, box, c) ==
    LET Before(j, i) == hist[j].acolor[c] < hist[i].acolor[c]
                        \/ (hist[j].acolor[c] = hist[i].acolor[c] /\ j < i)
    IN  Tabulate([r \in 1 .. Cardinality(box) |->
            CHOOSE i \in box : Cardinality({j \in box : Before(j, i)}) = r - 1])

\* The two halves of a box cut at the weighted median of its widest channel.
SplitBox(hist, w, box) ==
    LET Halves(srt, cut) ==
            [ left |-> {srt[i] : i \in 1 .. cut},
              right |-> {srt[i] : i \in cut + 1 .. Len(srt)} ]
        Reach(srt, reach) ==
            Halves(srt, IF reach = {} THEN Len(srt) - 1 ELSE SetMin(reach))
        Cut(srt, t) ==
            Reach(srt, {j \in 1 .. Len(srt) - 1 :
                            2 * SumOver(w, {srt[i] : i \in 1 .. j}) >= t})
        Sorted(c) == CHOOSE val \in {Cut(x, y) :
                         x \in {SortBox(hist, box, c)},
                         y \in {BoxTotal(w, box)}} : TRUE
    IN  CHOOSE val \in {Sorted(x) : x \in
            {SplitChannel(hist, w, box)}} : TRUE

\* The boxes of the cut, the variance of each, and the boxes that can be
\* split: those of two entries or more.
MeasuredBoxes(hist, w, total, boxes) ==
    [ boxes |-> boxes,
      var |-> Tabulate([k \in 1 .. Len(boxes) |->
                  BoxVariance(hist, w, total, boxes[k])]),
      splittable |-> {k \in 1 .. Len(boxes) : Cardinality(boxes[k]) >= 2} ]

\* One split: of the boxes over max_mse if there is one, else of the boxes
\* that can be split, the one of largest variance is halved.
SplitLargest(hist, w, total, st, max_mse) ==
    LET Halved(k, halves) ==
            MeasuredBoxes(hist, w, total,
                Append([st.boxes EXCEPT ![k] = halves.left], halves.right))
        Halve(k) == CHOOSE val \in {Halved(x, y) :
                        x \in {k},
                        y \in {SplitBox(hist, w, st.boxes[k])}} : TRUE
        Largest(pool) ==
            Halve(CHOOSE i \in pool :
                    \A j \in pool : st.var[i] > st.var[j]
                                    \/ (st.var[i] = st.var[j] /\ i <= j))
        Over(over) == Largest(IF over # {} THEN over ELSE st.splittable)
    IN  Over({k \in st.splittable : st.var[k] > max_mse})

RECURSIVE MedianCutLoop(_, _, _, _, _, _, _)
MedianCutLoop(hist, w, total, st, newcolors, target_mse, max_mse) ==
    IF Len(st.boxes) >= newcolors \/ st.splittable = {} \/ SumSeq(st.var) <= target_mse
    THEN st.boxes
    ELSE MedianCutLoop(hist, w, total, SplitLargest(hist, w, total, st, max_mse),
                       newcolors, target_mse, max_mse)

\* The colormap: one entry per box, the weighted centroid of its members,
\* popularity the sum of their perceptual weights.
mediancut(hist, min_opaque_val, newcolors, target_mse, max_mse) ==
    LET pw == Tabulate([j \in 1 .. Len(hist) |-> hist[j].perceptual_weight])
        Cut(w, total) ==
            LET Map(boxes) ==
                    Tabulate([k \in 1 .. Len(boxes) |->
                        [ acolor |-> BoxCentroid(hist, w, boxes[k]),
                          popularity |-> SumOver(pw, boxes[k]) ]])
            IN  CHOOSE val \in {Map(x) : x \in
                    {MedianCutLoop(hist, w, total, MeasuredBoxes(hist, w, total, <<DOMAIN hist>>), newcolors, target_mse, max_mse)}} : TRUE
        Weighted(w) == Cut(w, SumSeq(w))
    IN  CHOOSE val \in {Weighted(x) : x \in
            {NormWeights(Tabulate([j \in 1 .. Len(hist) |-> hist[j].adjusted_weight]))}} : TRUE

(***************************************************************************)
(* find_best_palette.  The state of its loop is a record: the working      *)
(* max_colors, the trials left, the kept colormap (NULL before the first), *)
(* least_error, target_mse_overshoot in units of 1/OvScale, the histogram  *)
(* with its adjusted weights, and what is returned once the loop ended.    *)
(***************************************************************************)
OvScale == 1000

\* find_best_palette starting with ten trials more than the attribute has.
FbpInit_longer(hist, options) ==
    [ max_colors |-> options.max_colors,
      feedback_loop_trials |-> options.feedback_loop_trials + 10,
      acolormap |-> NULL,
      least_error |-> MAX_DIFF,
      target_mse_overshoot |-> (105 * OvScale) \div 100,
      hist |-> hist,
      done |-> FALSE, returned |-> NULL, palette_error_set |-> FALSE,
      trials_run |-> 0, viter_runs |-> 0, trial |-> NULL ]

FbpInit(hist, options) ==
    [ max_colors |-> options.max_colors,
      feedback_loop_trials |-> options.feedback_loop_trials,
      acolormap |-> NULL,
      least_error |-> MAX_DIFF,
      target_mse_overshoot |->
          IF options.feedback_loop_trials > 0 THEN (105 * OvScale) \div 100
          ELSE OvScale,
      hist |-> hist,
      done |-> FALSE, returned |-> NULL, palette_error_set |-> FALSE,
      trials_run |-> 0, viter_runs |-> 0, trial |-> NULL ]

\* The test of line 947 that also takes a palette whose error equals the
\* least.
FbpAccepts_not_worse(st, options, total_error, colors) ==
    \/ st.acolormap = NULL
    \/ total_error <= st.least_error
    \/ (total_error <= options.target_mse /\ colors < st.max_colors)

\* Line 947: whether the new colormap, of that error and that many colours,
\* replaces the one kept.
FbpAccepts(st, options, total_error, colors) ==
    \/ st.acolormap = NULL
    \/ total_error < st.least_error
    \/ (total_error <= options.target_mse /\ colors < st.max_colors)

\* One pass of the do-while body.  trial records the pass: the state before
\* it, whether viter_do_iteration was called and with the callback, and what
\* it returned for the new colormap.
FbpTrial(st, options) ==
    LET target_mse == options.target_mse
        first_run_of_target_mse == st.acolormap = NULL /\ target_mse > 0
        \* the trial kept: total_error is it.error and the colormap it.map
        Accepted(it) ==
            [st EXCEPT
                !.acolormap = it.map,
                !.target_mse_overshoot =
                    IF it.error < target_mse /\ it.error > 0
                    THEN MIN(MulDiv(@, 125, 100),
                             MulDiv(target_mse, OvScale, it.error))
                    ELSE @,
                !.least_error = it.error,
                !.max_colors = MIN(Colors(it.map) + 1, @),
                !.feedback_loop_trials = @ - 1,
                !.hist = it.hist]
        Rejected(it) ==
            [st EXCEPT
                !.hist = Tabulate([j \in 1 .. Len(it.hist) |->
                            [it.hist[j] EXCEPT !.adjusted_weight =
                                (it.hist[j].perceptual_weight + @) \div 2]]),
                !.target_mse_overshoot = OvScale,
                !.feedback_loop_trials =
                    IF it.error > st.least_error * 4 THEN @ - 9 ELSE @ - 6]
        Continue(after, it) ==
            [after EXCEPT
                !.done = after.feedback_loop_trials <= 0,
                !.returned = IF after.feedback_loop_trials > 0 THEN @
                             ELSE after.acolormap,
                !.palette_error_set = after.feedback_loop_trials <= 0,
                !.trials_run = @ + 1, !.viter_runs = @ + 1,
                !.trial = [ before |-> [st EXCEPT !.trial = NULL], viter |-> TRUE,
                            callback |-> ~first_run_of_target_mse,
                            total_error |-> it.error, newmap |-> it.map,
                            diff |-> it.diff, hist |-> it.hist ]]
        After(it) ==
            Continue(IF FbpAccepts(st, options, it.error, Colors(it.map))
                     THEN Accepted(it) ELSE Rejected(it), it)
        Trial(newmap) ==
            IF st.feedback_loop_trials <= 0
            THEN [st EXCEPT !.done = TRUE, !.returned = newmap,
                            !.trials_run = @ + 1,
                            !.trial = [ before |-> [st EXCEPT !.trial = NULL],
                                        viter |-> FALSE, callback |-> FALSE,
                                        total_error |-> NULL, newmap |-> newmap,
                                        diff |-> <<>>, hist |-> st.hist ]]
            ELSE CHOOSE val \in {After(x) : x \in
                     {viter_do_iteration(st.hist, newmap, options.min_opaque_val, ~first_run_of_target_mse)}} : TRUE
    IN  CHOOSE val \in {Trial(x) : x \in
            {mediancut(st.hist, options.min_opaque_val, st.max_colors, MulDiv(target_mse, st.target_mse_overshoot, OvScale), (MAX(MAX((90 * D2) \div 65536, target_mse), st.least_error) * 12) \div 10)}} : TRUE

\* The do-while of lines 927-970 from the state st on, for at most n passes:
\* the first half of the passes, then the rest.
RECURSIVE FbpLoop(_, _, _)
FbpLoop(st, options, n) ==
    CASE st.done -> st
      [] ~st.done /\ n = 1 -> FbpTrial(st, options)
      [] OTHER -> FbpLoop(FbpLoop(st, options, n \div 2), options, n - n \div 2)

\* The colormap returned and *palette_error_p afterwards (palette_error is
\* its value before the call).
find_best_palette(hist, options, palette_error) ==
    LET Outcome(st) ==
            [ map |-> st.returned,
              palette_error |-> IF st.palette_error_set THEN st.least_error
                                ELSE palette_error,
              hist |-> st.hist, trials |-> st.viter_runs ]
    \* a pass takes at least one from feedback_loop_trials, and the loop ends
    \* when none is left
    IN  CHOOSE val \in {Outcome(x) : x \in
            {FbpLoop(FbpInit(hist, options), options, MAX(options.feedback_loop_trials, 1))}} : TRUE

(***************************************************************************)
(* sort_palette.  qsort is given a comparison that never returns 0; it is  *)
(* modelled as the insertion sort that puts an element before the first    *)
(* one it compares less than.                                              *)
(***************************************************************************)
\* The comparison with its results exchanged.
compare_popularity_descending(ch1, ch2) ==
    IF ch1.popularity > ch2.popularity THEN -1 ELSE 1

compare_popularity(ch1, ch2) ==
    IF ch1.popularity > ch2.popularity THEN 1 ELSE -1

RECURSIVE InsertSorted(_, _)
InsertSorted(sorted, x) ==
    IF sorted = <<>> THEN <<x>>
    ELSE IF compare_popularity(x, Head(sorted)) < 0 THEN <<x>> \o sorted
    ELSE <<Head(sorted)>> \o InsertSorted(Tail(sorted), x)

RECURSIVE qsort(_)
qsort(s) ==
    IF s = <<>> THEN <<>>
    ELSE InsertSorted(qsort(SubSeq(s, 1, Len(s) - 1)), s[Len(s)])

Swap(s, i, j) == [s EXCEPT ![i] = s[j], ![j] = s[i]]

\* The loop of lines 422-433 from index i (a C index) on.
RECURSIVE MoveTransparent(_, _, _)
MoveTransparent(pal, i, num_transparent) ==
    IF i >= Len(pal) THEN [pal |-> pal, num_transparent |-> num_transparent]
    ELSE IF Below255_256(pal[i + 1].acolor.a)
         THEN IF i # num_transparent
              THEN MoveTransparent(Swap(pal, num_transparent + 1, i + 1), i,
                                   num_transparent + 1)
              ELSE MoveTransparent(pal, i + 1, num_transparent + 1)
         ELSE MoveTransparent(pal, i + 1, num_transparent)

\* What sort_palette logs: line 435, which the return of line 413 skips.
sort_palette_log(map, options) ==
    IF options.log_callback = NULL
       \/ (options.last_index_transparent
             /\ \E i \in 1 .. Len(map) : Below1_256(map[i].acolor.a))
    THEN <<>>
    ELSE <<Message("  eliminated opaque tRNS-chunk entries...%d entr%s transparent",
                   <<MoveTransparent(map, 0, 0).num_transparent>>)>>

\* sort_palette without its last_index_transparent branch.
sort_palette_unflagged(map, options) ==
    LET Sorted(pal, nt) == qsort(SubSeq(pal, 1, nt)) \o qsort(SubSeq(pal, nt + 1, Len(map)))
        Moved(moved) == Sorted(moved.pal, moved.num_transparent)
    IN  Moved(MoveTransparent(map, 0, 0))

sort_palette(map, options) ==
    LET trans == {i \in 1 .. Len(map) : Below1_256(map[i].acolor.a)}
        Last(swapped) == qsort(SubSeq(swapped, 1, Len(map) - 1)) \o <<swapped[Len(map)]>>
        Sorted(pal, nt) == qsort(SubSeq(pal, 1, nt)) \o qsort(SubSeq(pal, nt + 1, Len(map)))
        Moved(moved) == Sorted(moved.pal, moved.num_transparent)
    IN  IF options.last_index_transparent /\ trans # {}
        THEN Last(Swap(map, SetMin(trans), Len(map)))
        ELSE Moved(MoveTransparent(map, 0, 0))

(***************************************************************************)
(* Allocation.  A call of an allocation or release function is the         *)
(* function and the kind of object it is called for; malloc and free of    *)
(* the C library are "malloc" and "free".  The calls inside pam.c,         *)
(* mediancut.c, viter.c and nearest.c (not among the sources) are left     *)
(* out.                                                                    *)
(***************************************************************************)
HeapCall(fn, object) == [fn |-> fn, object |-> object]

\* Line 232.
liq_attr_create_heap(malloc) == {HeapCall(malloc, "liq_attr")}

\* Line 219.
liq_attr_copy_heap(orig) == {HeapCall(orig.malloc, "liq_attr")}

\* Lines 250 and, when contrast_maps ran, 794-796 and 850.
liq_image_create_rgba_rows_heap(img) ==
    IF img = NULL THEN {}
    ELSE {HeapCall("malloc", "liq_image")}
         \cup (IF img.edges = NULL THEN {}
               ELSE {HeapCall("malloc", "noise"), HeapCall("malloc", "tmp"),
                     HeapCall("malloc", "edges"), HeapCall("free", "tmp")})

\* Line 282, then liq_image_create_rgba_rows.
liq_image_create_rgba_heap(img) ==
    IF img = NULL THEN {}
    ELSE {HeapCall("malloc", "rows")} \cup liq_image_create_rgba_rows_heap(img)

\* Lines 328-331 and 1029; res is the result returned.
liq_quantize_image_heap(input_image, res) ==
    (IF input_image.noise = NULL THEN {} ELSE {HeapCall("free", "noise")})
    \cup (IF res = NULL THEN {} ELSE {HeapCall("malloc", "liq_result")})

\* Line 347.
liq_remap_heap == {HeapCall("malloc", "liq_remapping_result")}

\* Lines 588-589 and 704-705 of remap_to_palette_floyd.
liq_write_remapped_image_rows_heap(result) ==
    IF result.dither_level = 0 THEN {}
    ELSE {HeapCall("malloc", "thiserr"), HeapCall("malloc", "nexterr"),
          HeapCall("free", "thiserr"), HeapCall("free", "nexterr")}

\* Lines 366-370.
liq_remapping_result_destroy_heap(result) ==
    IF result = NULL THEN {} ELSE {HeapCall("free", "liq_remapping_result")}

\* Lines 375-377.
liq_result_destroy_heap(res) ==
    IF res = NULL THEN {} ELSE {HeapCall("free", "liq_result")}

\* Lines 304-322: the struct itself is not released.
liq_image_destroy_heap(input_image) ==
    IF input_image = NULL THEN {}
    ELSE (IF input_image.free_pixels /\ input_image.pixels # NULL
          THEN {HeapCall("free", "pixels")} ELSE {})
         \cup (IF input_image.free_rows /\ input_image.rows # NULL
               THEN {HeapCall("free", "rows")} ELSE {})
         \cup (IF input_image.noise # NULL THEN {HeapCall("free", "noise")} ELSE {})
         \cup (IF input_image.edges # NULL THEN {HeapCall("free", "edges")} ELSE {})

(***************************************************************************)
(* The heap of colormaps.  A colormap pointer is an index of the heap, 0   *)
(* the null pointer; a freed colormap leaves NULL behind.  pam_colormap,   *)
(* pam_duplicate_colormap and pam_freecolormap are pam.c (not among the    *)
(* sources).                                                               *)
(***************************************************************************)
pam_colormap(heap, map) == [addr |-> Len(heap) + 1, heap |-> Append(heap, map)]

pam_duplicate_colormap(heap, addr) == pam_colormap(heap, heap[addr])

pam_freecolormap(heap, addr) == [heap EXCEPT ![addr] = NULL]

(***************************************************************************)
(* pngquant_quantize and liq_quantize_image.  A palette_error of -1.0 is   *)
(* -D2.  pngquant_quantize yields the colormap it built (NULL when it      *)
(* returns no result), its local palette_error at the return, and the      *)
(* fields of the liq_result; liq_quantize_image puts the colormap on the   *)
(* heap and the liq_result holds its address.                              *)
(***************************************************************************)
\* The loop ending at every pass whose error is above 1.5 max_mse.
VoronoiControl_hopeless(options, previous_palette_error, palette_error) ==
    IF Abs(previous_palette_error - palette_error)
         < (D2 + options.voronoi_iteration_limit - 1) \div options.voronoi_iteration_limit
       \/ 2 * palette_error > options.max_mse * 3
    THEN "break" ELSE "next"

\* Lines 1007-1016: what the loop does after a pass that gave palette_error:
\* it ends ("break"), goes on ("next"), or goes on with one more iteration
\* allowed ("extend").
VoronoiControl(options, previous_palette_error, palette_error) ==
    IF Abs(previous_palette_error - palette_error)
         < (D2 + options.voronoi_iteration_limit - 1) \div options.voronoi_iteration_limit
    THEN "break"
    ELSE IF 2 * palette_error > options.max_mse * 3
         THEN IF palette_error > options.max_mse * 3 THEN "break" ELSE "extend"
         ELSE "next"

\* The loop of lines 1004-1017 from pass i on; passes counts the calls of
\* viter_do_iteration.
RECURSIVE VoronoiLoop(_, _, _, _, _, _, _)
VoronoiLoop(hist, options, map, i, iterations, previous_palette_error, palette_error) ==
    LET \* the pass: palette_error becomes it.error
        Pass(it, control) ==
            IF control = "break"
            THEN [map |-> it.map, palette_error |-> it.error, passes |-> i + 1,
                  iterations |-> iterations]
            ELSE VoronoiLoop(hist, options, it.map, i + 1,
                             IF control = "extend" THEN iterations + 1 ELSE iterations,
                             it.error, it.error)
        Decide(it) == Pass(it, VoronoiControl(options, previous_palette_error, it.error))
    IN  IF i >= iterations
        THEN [map |-> map, palette_error |-> palette_error, passes |-> i,
              iterations |-> iterations]
        ELSE Decide(viter_do_iteration(hist, map, options.min_opaque_val, FALSE))

\* Lines 994-996: the iterations the loop starts with, one being forced when
\* the search computed no error and there is a limit on the error.
VoronoiIterations(options, palette_error) ==
    IF options.voronoi_iterations = 0 /\ palette_error < 0 /\ options.max_mse < MAX_DIFF
    THEN 1 ELSE options.voronoi_iterations

\* QuantizeSearch without the iteration forced when no error was computed.
QuantizeSearch_unforced(hist, options) ==
    LET Refined(fbp, vl) ==
            [ map |-> vl.map, palette_error |-> vl.palette_error, passes |-> vl.passes,
              iterations |-> vl.iterations, trials |-> fbp.trials ]
        Refine(fbp) ==
            IF options.voronoi_iterations # 0
            THEN CHOOSE val \in {Refined(fbp, x) : x \in
                     {VoronoiLoop(fbp.hist, options, fbp.map, 0, options.voronoi_iterations,
                                  MAX_DIFF, fbp.palette_error)}} : TRUE
            ELSE [map |-> fbp.map, palette_error |-> fbp.palette_error, passes |-> 0,
                  iterations |-> 0, trials |-> fbp.trials]
    IN  CHOOSE val \in {Refine(x) : x \in
            {find_best_palette(hist, options, -D2)}} : TRUE

\* Lines 990-1018: the palette search and the Voronoi refinement; trials is
\* the number of passes of the search that reached line 967.
QuantizeSearch(hist, options) ==
    LET Refined(fbp, vl) ==
            [ map |-> vl.map, palette_error |-> vl.palette_error, passes |-> vl.passes,
              iterations |-> vl.iterations, trials |-> fbp.trials ]
        Refine(fbp, iterations) ==
            IF iterations # 0
            THEN CHOOSE val \in {Refined(fbp, x) : x \in
                     {VoronoiLoop(fbp.hist, options, fbp.map, 0, iterations,
                                  MAX_DIFF, fbp.palette_error)}} : TRUE
            ELSE [map |-> fbp.map, palette_error |-> fbp.palette_error, passes |-> 0,
                  iterations |-> 0, trials |-> fbp.trials]
        Found(fbp) == Refine(fbp, VoronoiIterations(options, fbp.palette_error))
    IN  CHOOSE val \in {Found(x) : x \in
            {find_best_palette(hist, options, -D2)}} : TRUE

\* What pngquant_quantize logs after the shortcut was not taken: line 967
\* once for each pass of the search that reached it, line 1000 when the
\* Voronoi loop is entered, line 1021 when the result is refused.
search_log(options, vl, refused) ==
    IF options.log_callback = NULL THEN <<>>
    ELSE [k \in 1 .. vl.trials |-> Message("  selecting colors...%d%%", <<>>)]
         \o (IF vl.iterations # 0
             THEN <<Message("  moving colormap towards local minimum", <<>>)>>
             ELSE <<>>)
         \o (IF refused
             THEN <<Message("  image degradation MSE=%.3f exceeded limit of %.3f", <<>>)>>
             ELSE <<>>)

MakeResult(options, palette_error) ==
    [ palette |-> 0,
      palette_error |-> palette_error,
      use_dither_map |-> options.use_dither_map,
      min_opaque_val |-> options.min_opaque_val,
      gamma |-> DefaultGamma, dither_level |-> 0 ]

\* pngquant_quantize taking the shortcut whatever the size of the histogram.
pngquant_quantize_any_size(hist, options) ==
    LET Checked(vl) ==
            IF vl.palette_error > options.max_mse
            THEN [ acolormap |-> NULL, palette_error |-> vl.palette_error,
                   result |-> NULL, passes |-> vl.passes,
                   logged |-> search_log(options, vl, TRUE) ]
            ELSE [ acolormap |-> sort_palette(vl.map, options),
                   palette_error |-> vl.palette_error,
                   result |-> MakeResult(options, vl.palette_error),
                   passes |-> vl.passes,
                   logged |-> search_log(options, vl, FALSE)
                                \o sort_palette_log(vl.map, options) ]
    IN  IF options.target_mse = 0
        THEN [ acolormap |-> sort_palette(
                                Tabulate([i \in 1 .. Len(hist) |->
                                    [ acolor |-> hist[i].acolor,
                                      popularity |-> hist[i].perceptual_weight ]]),
                                options),
               palette_error |-> 0,
               result |-> MakeResult(options, 0), passes |-> 0,
               logged |-> sort_palette_log(
                              Tabulate([i \in 1 .. Len(hist) |->
                                  [ acolor |-> hist[i].acolor,
                                    popularity |-> hist[i].perceptual_weight ]]),
                              options) ]
        ELSE CHOOSE val \in {Checked(x) : x \in
                 {QuantizeSearch(hist, options)}} : TRUE

\* pngquant_quantize returning a result whatever the palette error.
pngquant_quantize_unrefused(hist, options) ==
    LET Checked(vl) ==
            [ acolormap |-> sort_palette(vl.map, options),
              palette_error |-> vl.palette_error,
              result |-> MakeResult(options, vl.palette_error), passes |-> vl.passes,
              logged |-> search_log(options, vl, FALSE)
                           \o sort_palette_log(vl.map, options) ]
    IN  IF Len(hist) <= options.max_colors /\ options.target_mse = 0
        THEN [ acolormap |-> sort_palette(
                                Tabulate([i \in 1 .. Len(hist) |->
                                    [ acolor |-> hist[i].acolor,
                                      popularity |-> hist[i].perceptual_weight ]]),
                                options),
               palette_error |-> 0,
               result |-> MakeResult(options, 0), passes |-> 0,
               logged |-> sort_palette_log(
                              Tabulate([i \in 1 .. Len(hist) |->
                                  [ acolor |-> hist[i].acolor,
                                    popularity |-> hist[i].perceptual_weight ]]),
                              options) ]
        ELSE CHOOSE val \in {Checked(x) : x \in
                 {QuantizeSearch(hist, options)}} : TRUE

pngquant_quantize(hist, options) ==
    LET \* lines 1020-1035, vl the colormap and palette_error of the search
        Checked(vl) ==
            IF vl.palette_error > options.max_mse
            THEN [ acolormap |-> NULL, palette_error |-> vl.palette_error,
                   result |-> NULL, passes |-> vl.passes,
                   logged |-> search_log(options, vl, TRUE) ]
            ELSE [ acolormap |-> sort_palette(vl.map, options),
                   palette_error |-> vl.palette_error,
                   result |-> MakeResult(options, vl.palette_error),
                   passes |-> vl.passes,
                   logged |-> search_log(options, vl, FALSE)
                                \o sort_palette_log(vl.map, options) ]
    IN  IF Len(hist) <= options.max_colors /\ options.target_mse = 0
        THEN [ acolormap |-> sort_palette(
                                Tabulate([i \in 1 .. Len(hist) |->
                                    [ acolor |-> hist[i].acolor,
                                      popularity |-> hist[i].perceptual_weight ]]),
                                options),
               palette_error |-> 0,
               result |-> MakeResult(options, 0), passes |-> 0,
               logged |-> sort_palette_log(
                              Tabulate([i \in 1 .. Len(hist) |->
                                  [ acolor |-> hist[i].acolor,
                                    popularity |-> hist[i].perceptual_weight ]]),
                              options) ]
        ELSE CHOOSE val \in {Checked(x) : x \in
                 {QuantizeSearch(hist, options)}} : TRUE

\* liq_quantize_image also releases the noise map of the image.
liq_quantize_image(options, input_image, heap) ==
    LET Result(q, cm) ==
            [ result |-> IF q.result = NULL THEN NULL
                         ELSE [q.result EXCEPT !.palette = cm.addr],
              image |-> [input_image EXCEPT !.noise = NULL],
              heap |-> IF q.result = NULL THEN heap ELSE cm.heap,
              palette_error |-> q.palette_error, passes |-> q.passes,
              logged |-> get_histogram_log(input_image, options) \o q.logged ]
        Quantized(q) == Result(q, pam_colormap(heap, q.acolormap))
        Counted(hist) == CHOOSE val \in {Quantized(x) : x \in
                             {pngquant_quantize(hist, options)}} : TRUE
    IN  CHOOSE val \in {Counted(x) : x \in
            {get_histogram(input_image, options)}} : TRUE

(***************************************************************************)
(* liq_result and liq_remapping_result.  dither_level is in units of 1/FS. *)
(***************************************************************************)
liq_set_dithering_level(res, dither_level) ==
    IF res.dither_level < 0 \/ res.dither_level > FS
    THEN [err |-> LIQ_VALUE_OUT_OF_RANGE, res |-> res]
    ELSE [err |-> LIQ_OK, res |-> [res EXCEPT !.dither_level = dither_level]]

EmptyPalette == [count |-> 0, entries |-> <<>>]

\* liq_remap handing the colormap of the result to the remapping result
\* instead of a duplicate.
liq_remap_shared(result, image, heap) ==
    [ res |-> [ dither_level |-> result.dither_level,
                use_dither_map |-> result.use_dither_map,
                palette_error |-> result.palette_error,
                gamma |-> result.gamma,
                min_opaque_val |-> result.min_opaque_val,
                palette |-> result.palette,
                pixels |-> NULL,
                int_palette |-> EmptyPalette ],
      heap |-> heap ]

liq_remap(result, image, heap) ==
    LET dup == pam_duplicate_colormap(heap, result.palette)
    IN  [ res |-> [ dither_level |-> result.dither_level,
                    use_dither_map |-> result.use_dither_map,
                    palette_error |-> result.palette_error,
                    gamma |-> result.gamma,
                    min_opaque_val |-> result.min_opaque_val,
                    palette |-> dup.addr,
                    pixels |-> NULL,
                    int_palette |-> EmptyPalette ],
          heap |-> dup.heap ]

\* The value is in units of 1/ErrorScale: palette_error*65536.0/6.0 is
\* palette_error * 65536 * ErrorScale / (6 * D2) of them, the fraction reduced.
ErrorScale == 30

ReportedError(palette_error) ==
    IF palette_error >= 0
    THEN MulDiv(palette_error, 4096, (6 * D2) \div (16 * ErrorScale))
    ELSE -MulDiv(-palette_error, ErrorScale, D2)

liq_get_remapping_error(result) == ReportedError(result.palette_error)

liq_get_remapped_palette(result) == result.int_palette

\* The int palette and the colormap after set_rounded_palette.
set_rounded_palette(result, map) ==
    LET Rounded(lut, px) ==
            [ int_palette |-> [count |-> Colors(map), entries |-> px],
              map |-> Tabulate([x \in 1 .. Len(map) |->
                          [map[x] EXCEPT !.acolor = to_f(lut, px[x])]]),
              lut |-> lut ]
    IN  Rounded(to_f_set_gamma(result.gamma),
                Tabulate([x \in 1 .. Len(map) |-> to_rgb(result.gamma, map[x].acolor)]))

(***************************************************************************)
(* remap_to_palette.  Pixels are visited in row-major order; k is the      *)
(* number of the pixel, row * cols + col.  An output plane is a function   *)
(* rows[row][col].                                                         *)
(***************************************************************************)
\* The body of the loops with remapped_pixels++ outside the test of alpha.
RemapPixel_counting(img, lut, map, min_opaque_val, transparent_ind, k) ==
    LET Matched(px, found) ==
            IF Below1_256(px.a)
            THEN [px |-> px, match |-> transparent_ind, remapped |-> 1, diff |-> 0]
            ELSE [px |-> px, match |-> found.idx, remapped |-> 1, diff |-> found.diff]
        Search(px) == Matched(px, nearest_search(map, px, min_opaque_val))
    IN  Search(to_f(lut, img.rows[k \div img.width][k % img.width]))

\* The body of the loops of lines 483-501 for pixel k: the pixel, its index
\* and what it adds to remapped_pixels and remapping_error.
RemapPixel(img, lut, map, min_opaque_val, transparent_ind, k) ==
    LET Matched(px, found) ==
            IF Below1_256(px.a)
            THEN [px |-> px, match |-> transparent_ind, remapped |-> 0, diff |-> 0]
            ELSE [px |-> px, match |-> found.idx, remapped |-> 1, diff |-> found.diff]
        Search(px) == Matched(px, nearest_search(map, px, min_opaque_val))
    IN  Search(to_f(lut, img.rows[k \div img.width][k % img.width]))

remap_to_palette(input_image, output_pixels, map, min_opaque_val) ==
    LET rows == input_image.height
        cols == input_image.width
        Remapped(lut, pixels) ==
            [ error |-> SumOver([k \in 0 .. rows * cols - 1 |-> pixels[k].diff],
                                0 .. rows * cols - 1)
                        \div MAX(1, SumOver([k \in 0 .. rows * cols - 1 |-> pixels[k].remapped],
                                            0 .. rows * cols - 1)),
              out |-> Tabulate([row \in DOMAIN output_pixels |->
                          Tabulate([col \in DOMAIN output_pixels[row] |->
                              IF row < rows /\ col < cols THEN pixels[row * cols + col].match
                              ELSE output_pixels[row][col]])]),
              map |-> viter_finalize(map,
                          viter_update_colors(map,
                              [k \in 0 .. rows * cols - 1 |->
                                  [acolor |-> pixels[k].px, value |-> 1,
                                   match |-> pixels[k].match]],
                              0 .. rows * cols - 1)),
              lut |-> lut ]
        Pixels(lut, transparent_ind) ==
            Remapped(lut,
                Tabulate([k \in 0 .. rows * cols - 1 |->
                    RemapPixel(input_image, lut, map, min_opaque_val, transparent_ind, k)]))
    IN  Pixels(to_f_set_gamma(input_image.gamma),
               nearest_search(map, [r |-> 0, g |-> 0, b |-> 0, a |-> 0],
                              min_opaque_val).idx)

distance_from_closest_other_color(map, i) ==
    LET others == {colordifference(map[i + 1].acolor, map[j].acolor) :
                      j \in (1 .. Len(map)) \ {i + 1}}
    IN  IF others = {} THEN MAX_DIFF ELSE MIN(MAX_DIFF, SetMin(others))

min_4(a, b, c, d) == MIN(MIN(a, b), MIN(c, d))

(***************************************************************************)
(* get_dithered_pixel.  A ratio is in units of 1/RatioScale.               *)
(***************************************************************************)
RatioScale == 1000

DitherRatio(s, p) ==
    IF s < 0 THEN (p * RatioScale) \div (-s)
    ELSE IF s > 0 THEN ((FS - p) * RatioScale) \div s
    ELSE RatioScale

get_dithered_pixel(dither_level, max_dither_error, thiserr, px) ==
    LET Dithered(sr, sg, sb, sa, dither_error, ratio) ==
            IF dither_error <= max_dither_error
               /\ dither_error < (2 * D2 + 65535) \div 65536
            THEN px
            ELSE [ r |-> px.r + Quot(sr * ratio, RatioScale),
                   g |-> px.g + Quot(sg * ratio, RatioScale),
                   b |-> px.b + Quot(sb * ratio, RatioScale),
                   a |-> px.a + Quot(sa * ratio, RatioScale) ]
        Ratio(sr, sg, sb, sa, dither_error, ratio) ==
            Dithered(sr, sg, sb, sa, dither_error,
                     Clamp(IF dither_error > max_dither_error THEN (ratio * 8) \div 10
                           ELSE ratio, 0, RatioScale))
        Scaled(sr, sg, sb, sa) ==
            Ratio(sr, sg, sb, sa, sr * sr + sg * sg + sb * sb + sa * sa,
                  min_4(DitherRatio(sr, px.r), DitherRatio(sg, px.g),
                        DitherRatio(sb, px.b), DitherRatio(sa, px.a)))
    IN  Scaled(Quot(thiserr.r * dither_level, FS), Quot(thiserr.g * dither_level, FS),
               Quot(thiserr.b * dither_level, FS), Quot(thiserr.a * dither_level, FS))

(***************************************************************************)
(* srand and rand of the C library: a linear congruential generator with   *)
(* RAND_MAX = 65536.  The state is the process-wide seed.                  *)
(***************************************************************************)
RAND_MAX == 65536

srand(seed) == seed

rand(state) == (state * 75 + 74) % (RAND_MAX + 1)

\* a / b rounded to the nearest integer, b > 0.
RoundDiv(a, b) == Quot(2 * a + (IF a >= 0 THEN b ELSE -b), 2 * b)

\* ((double)rand() - rand_max/2.0)/rand_max/255.0 for the value v of rand().
InitialError(v) == RoundDiv((2 * v - RAND_MAX) * FS, 2 * RAND_MAX * 255)

\* The error vector of lines 592-598 for columns col .. cols+1, and the
\* seed left behind.
RECURSIVE InitThisErr(_, _, _, _)
InitThisErr(state, col, cols, thiserr) ==
    IF col >= cols + 2 THEN [thiserr |-> thiserr, state |-> state]
    ELSE LET s1 == rand(state)
             s2 == rand(s1)
             s3 == rand(s2)
             s4 == rand(s3)
         IN  InitThisErr(s4, col + 1, cols,
                [thiserr EXCEPT ![col] =
                    [ r |-> InitialError(s1), g |-> InitialError(s2),
                      b |-> InitialError(s3), a |-> InitialError(s4) ]])

ZeroErr == [r |-> 0, g |-> 0, b |-> 0, a |-> 0]

\* vec[i] += (err * num) / 16.0f
AddErr(vec, i, err, num) ==
    [vec EXCEPT ![i] = [ r |-> @.r + Quot(err.r * num, 16),
                         g |-> @.g + Quot(err.g * num, 16),
                         b |-> @.b + Quot(err.b * num, 16),
                         a |-> @.a + Quot(err.a * num, 16) ]]

\* Lines 650-690: the sixteenths of the error added to the error rows for
\* the pixel of column col.
FloydShares_unmirrored(col, fs_direction) ==
    << [vec |-> "thiserr", index |-> col + 2, num |-> 7],
       [vec |-> "nexterr", index |-> col, num |-> 3],
       [vec |-> "nexterr", index |-> col + 1, num |-> 5],
       [vec |-> "nexterr", index |-> col + 2, num |-> 1] >>

FloydShares(col, fs_direction) ==
    IF fs_direction
    THEN << [vec |-> "thiserr", index |-> col + 2, num |-> 7],
            [vec |-> "nexterr", index |-> col, num |-> 3],
            [vec |-> "nexterr", index |-> col + 1, num |-> 5],
            [vec |-> "nexterr", index |-> col + 2, num |-> 1] >>
    ELSE << [vec |-> "thiserr", index |-> col, num |-> 7],
            [vec |-> "nexterr", index |-> col, num |-> 1],
            [vec |-> "nexterr", index |-> col + 1, num |-> 5],
            [vec |-> "nexterr", index |-> col + 2, num |-> 3] >>

\* The shares from the k-th on that go to the error row called name.
RECURSIVE AddShares(_, _, _, _, _)
AddShares(vec, name, shares, k, err) ==
    IF k > Len(shares) THEN vec
    ELSE AddShares(IF shares[k].vec = name
                   THEN AddErr(vec, shares[k].index, err, shares[k].num) ELSE vec,
                   name, shares, k + 1, err)

\* Line 604: the column a row starts at.
FloydStart_left(fs_direction, cols) == 0

FloydStart(fs_direction, cols) == IF fs_direction THEN 0 ELSE cols - 1

\* Line 608: the element of thiserr read for the pixel of column col.
FloydRead(col) == col + 1

\* The body of the do-while of lines 606-696 for the pixel (row, st.col); c
\* holds what the loops do not change.  The state of the loop is the output
\* plane, the two error rows, col, and more: whether the loop goes on.
FloydPixel(c, row, fs_direction, st) ==
    LET col == st.col
        \* lines 642-695: the index stored, the error carried on, the zig-zag
        Propagate(ind, err) ==
            [ out |-> [st.out EXCEPT ![row][col] = ind],
              thiserr |-> AddShares(st.thiserr, "thiserr",
                                    FloydShares(col, fs_direction), 1, err),
              nexterr |-> AddShares(st.nexterr, "nexterr",
                                    FloydShares(col, fs_direction), 1, err),
              col |-> IF fs_direction THEN col + 1
                      ELSE IF col <= 0 THEN col ELSE col - 1,
              more |-> IF fs_direction THEN col + 1 < c.cols ELSE col > 0,
              err |-> err ]
        Weighted(ind, err0, dl, colorimp) ==
            Propagate(ind,
                [ r |-> Quot(err0.r * colorimp, FS), g |-> Quot(err0.g * colorimp, FS),
                  b |-> Quot(err0.b * colorimp, FS), a |-> Quot(err0.a * dl, FS) ])
        Level(ind, xp, err0, dl) ==
            Weighted(ind, err0, dl, Quot((3 * FS + xp.a) * dl, 4 * FS))
        Error(dither_level, ind, xp, err0) ==
            Level(ind, xp, err0,
                  IF err0.r * err0.r + err0.g * err0.g + err0.b * err0.b
                        + err0.a * err0.a > c.max_dither_error
                  THEN (dither_level * 3) \div 4 ELSE dither_level)
        Entry(dither_level, spx, ind, xp) ==
            Error(dither_level, ind, xp,
                  [ r |-> spx.r - xp.r, g |-> spx.g - xp.g,
                    b |-> spx.b - xp.b, a |-> spx.a - xp.a ])
        Index(dither_level, spx, ind) ==
            Entry(dither_level, spx, ind, c.map[ind + 1].acolor)
        Match(dither_level, spx, curr_ind) ==
            Index(dither_level, spx,
                  IF Below1_256(spx.a) THEN c.transparent_ind
                  ELSE IF c.output_image_is_remapped
                          /\ colordifference(c.map[curr_ind + 1].acolor, spx)
                               < c.difference_tolerance[curr_ind + 1]
                       THEN curr_ind
                       ELSE nearest_search(c.map, spx, c.min_opaque_val).idx)
        Visit(dither_level) ==
            Match(dither_level,
                  get_dithered_pixel(dither_level, c.max_dither_error,
                      st.thiserr[FloydRead(col)], to_f(c.lut, c.img.rows[row][col])),
                  st.out[row][col])
    IN  Visit(IF c.dither_map # NULL THEN c.dither_map[row * c.cols + col]
              ELSE (15 * FS) \div 16)

\* The do-while of lines 606-696 from the state st on.
RECURSIVE FloydRow(_, _, _, _)
FloydRow(c, row, fs_direction, st) ==
    IF ~st.more THEN st
    ELSE FloydRow(c, row, fs_direction, FloydPixel(c, row, fs_direction, st))

RECURSIVE FloydRows(_, _, _, _)
FloydRows(c, row, fs_direction, st) ==
    LET \* lines 698-701: the error rows swapped and the direction turned
        Turn(st1) ==
            FloydRows(c, row + 1, ~fs_direction,
                      [st1 EXCEPT !.thiserr = st1.nexterr, !.nexterr = st1.thiserr])
    IN  IF row >= c.rows THEN st
        ELSE Turn(FloydRow(c, row, fs_direction,
                     [st EXCEPT !.nexterr = Tabulate([i \in 0 .. c.cols + 1 |-> ZeroErr]),
                                !.col = FloydStart(fs_direction, c.cols),
                                !.more = TRUE]))

\* Lines 569-586: what the loops of remap_to_palette_floyd do not change.
FloydContext(input_image, map, min_opaque_val, use_dither_map, output_image_is_remapped, max_dither_error) ==
    [ img |-> input_image, rows |-> input_image.height, cols |-> input_image.width,
      lut |-> to_f_set_gamma(input_image.gamma), map |-> map,
      min_opaque_val |-> min_opaque_val,
      dither_map |-> IF use_dither_map
                     THEN (IF input_image.dither_map # NULL
                           THEN input_image.dither_map
                           ELSE input_image.edges)
                     ELSE NULL,
      transparent_ind |-> nearest_search(map, ZeroErr, min_opaque_val).idx,
      output_image_is_remapped |-> output_image_is_remapped,
      difference_tolerance |->
          Tabulate([i \in 1 .. Len(map) |->
              distance_from_closest_other_color(map, i - 1) \div 4]),
      max_dither_error |-> max_dither_error ]

\* remap_to_palette_floyd without its srand(12345): the noise continues the
\* sequence of the generator.
remap_to_palette_floyd_unseeded(input_image, output_pixels, map, min_opaque_val, use_dither_map, output_image_is_remapped, max_dither_error, seed) ==
    LET cols == input_image.width
        lut == to_f_set_gamma(input_image.gamma)
        c == FloydContext(input_image, map, min_opaque_val, use_dither_map,
                          output_image_is_remapped, max_dither_error)
        Dithered(init, st) == [out |-> st.out, seed |-> init.state, lut |-> lut]
        Rows(init) ==
            Dithered(init, FloydRows(c, 0, TRUE,
                               [ out |-> output_pixels, thiserr |-> init.thiserr,
                                 nexterr |-> init.thiserr, col |-> 0, more |-> TRUE,
                                 err |-> ZeroErr ]))
    IN  Rows(InitThisErr(seed, 0, cols, Tabulate([i \in 0 .. cols + 1 |-> ZeroErr])))

\* seed is the state of the C library's generator at the call.
remap_to_palette_floyd(input_image, output_pixels, map, min_opaque_val, use_dither_map, output_image_is_remapped, max_dither_error, seed) ==
    LET cols == input_image.width
        lut == to_f_set_gamma(input_image.gamma)
        c == FloydContext(input_image, map, min_opaque_val, use_dither_map,
                          output_image_is_remapped, max_dither_error)
        Dithered(init, st) == [out |-> st.out, seed |-> init.state, lut |-> lut]
        Rows(init) ==
            Dithered(init, FloydRows(c, 0, TRUE,
                               [ out |-> output_pixels, thiserr |-> init.thiserr,
                                 nexterr |-> init.thiserr, col |-> 0, more |-> TRUE,
                                 err |-> ZeroErr ]))
    IN  Rows(InitThisErr(srand(12345), 0, cols, Tabulate([i \in 0 .. cols + 1 |-> ZeroErr])))

(***************************************************************************)
(* update_dither_map.  neighbor_count is kept in halves (2.5 is 5).        *)
(***************************************************************************)
\* The inner loop of lines 873-897 from column col on; the edges map after it.
\* (The comparison of edges makes a table of the map at every column.)
RECURSIVE UpdateDitherRow(_, _, _, _, _, _, _, _)
UpdateDitherRow(row_pointers, edges, width, height, row, col, lastpixel, lastcol) ==
    IF edges = <<>> \/ col >= width THEN edges
    ELSE LET px == row_pointers[row][col]
             above == {i \in lastcol .. col - 1 :
                          row > 0 /\ row_pointers[row - 1][i] = lastpixel}
             below == {i \in lastcol .. col - 1 :
                          row < height - 1 /\ row_pointers[row + 1][i] = lastpixel}
             neighbor_count == 5 + 2 * (col - lastcol)
                               + 2 * Cardinality(above) + 2 * Cardinality(below)
         IN  IF px # lastpixel \/ col = width - 1
             THEN UpdateDitherRow(row_pointers,
                     Tabulate([k \in DOMAIN edges |->
                         IF k \in row * width + lastcol .. row * width + col
                         THEN Quot(edges[k] * (neighbor_count - 5), neighbor_count)
                         ELSE edges[k]]),
                     width, height, row, col + 1, px, col + 1)
             ELSE UpdateDitherRow(row_pointers, edges, width, height, row, col + 1,
                                  lastpixel, lastcol)

RECURSIVE UpdateDitherRows(_, _, _, _, _)
UpdateDitherRows(row_pointers, edges, width, height, row) ==
    IF edges = <<>> \/ row >= height THEN edges
    ELSE UpdateDitherRows(row_pointers,
            UpdateDitherRow(row_pointers, edges, width, height, row, 1,
                            row_pointers[row][0], 0),
            width, height, row + 1)

update_dither_map(row_pointers, input_image) ==
    [input_image EXCEPT
        !.dither_map = UpdateDitherRows(row_pointers, input_image.edges,
                                        input_image.width, input_image.height, 0),
        !.edges = NULL]

\* Line 1067 without the test of the maps of the image.
GenerateDitherMap_always(result, input_image) == result.use_dither_map

\* Line 1067: generate_dither_map.
GenerateDitherMap(result, input_image) ==
    /\ result.use_dither_map
    /\ input_image.edges # NULL
    /\ input_image.dither_map = NULL

(***************************************************************************)
(* liq_write_remapped_image_rows.  The result holds everything the call    *)
(* changes: the remapping result, the image, the output plane, the heap of *)
(* colormaps, the gamma table and the seed of rand(); lut and seed are the *)
(* gamma table and the seed at the call.                                   *)
(***************************************************************************)
liq_write_remapped_image_rows(result, input_image, row_pointers, heap, lut, seed) ==
    LET map0 == heap[result.palette]
        generate_dither_map == GenerateDitherMap(result, input_image)
        \* lines 1081-1086: what the call leaves behind
        Left(int_palette, remapping_error, image, pixels, map, state) ==
            [ err |-> LIQ_OK,
              result |-> [result EXCEPT
                            !.int_palette = int_palette,
                            !.palette_error = IF @ < 0 THEN remapping_error ELSE @],
              image |-> image,
              out |-> pixels,
              heap |-> [heap EXCEPT ![result.palette] = map],
              lut |-> to_f_set_gamma(input_image.gamma),
              seed |-> state ]
        \* dither_level == 0
        PlainRemapped(p_round, p_remap) ==
            Left(p_round.int_palette, p_remap.error, input_image, p_remap.out,
                    p_remap.map, seed)
        Plain(p_round) ==
            PlainRemapped(p_round,
                remap_to_palette(input_image, row_pointers, p_round.map,
                                 result.min_opaque_val))
        \* dither_level # 0
        Floyd(d_image, d_error, d_round, d_floyd) ==
            Left(d_round.int_palette, d_error, d_image, d_floyd.out, d_round.map,
                    d_floyd.seed)
        Rounded(d_image, d_error, d_out, d_round) ==
            Floyd(d_image, d_error, d_round,
                remap_to_palette_floyd(d_image, d_out, d_round.map,
                    result.min_opaque_val, result.use_dither_map, generate_dither_map,
                    MAX((d_error * 24) \div 10, D2 \div 16), seed))
        Dithered(d_image, d_error, d_out, d_map) ==
            Rounded(d_image, d_error, d_out, set_rounded_palette(result, d_map))
        Mapped(d_remap) ==
            Dithered(update_dither_map(d_remap.out, input_image), d_remap.error,
                     d_remap.out, d_remap.map)
    IN  IF result.dither_level = 0
        THEN Plain(set_rounded_palette(result, map0))
        ELSE IF generate_dither_map
             THEN Mapped(remap_to_palette(input_image, row_pointers, map0,
                                          result.min_opaque_val))
             ELSE Dithered(input_image, result.palette_error, row_pointers, map0)

\* Lines 1047-1051: rows[i] points at byte width * i of the buffer, so the
\* plane the rows are written through is the first width * height bytes.
BufferRows(buffer, width, height) ==
    Tabulate([row \in 0 .. height - 1 |->
        Tabulate([col \in 0 .. width - 1 |-> buffer[width * row + col + 1]])])

\* The buffer once the plane was written through those row pointers.
BufferWritten(buffer, rows, width, height) ==
    Tabulate([k \in 1 .. Len(buffer) |->
        IF k <= width * height THEN rows[(k - 1) \div width][(k - 1) % width]
        ELSE buffer[k]])

\* The size check with the comparison <= for <.
liq_write_remapped_image_strict(result, input_image, buffer, buffer_size, heap, lut, seed) ==
    [ err |-> IF buffer_size <= input_image.width * input_image.height
              THEN LIQ_BUFFER_TOO_SMALL ELSE LIQ_OK,
      result |-> result, image |-> input_image, buffer |-> buffer, heap |-> heap,
      lut |-> lut, seed |-> seed ]

liq_write_remapped_image(result, input_image, buffer, buffer_size, heap, lut, seed) ==
    LET Written(w) ==
            [ err |-> w.err, result |-> w.result, image |-> w.image,
              buffer |-> BufferWritten(buffer, w.out, input_image.width,
                                       input_image.height),
              heap |-> w.heap, lut |-> w.lut, seed |-> w.seed ]
    IN  IF buffer_size < input_image.width * input_image.height
        THEN [ err |-> LIQ_BUFFER_TOO_SMALL, result |-> result, image |-> input_image,
               buffer |-> buffer, heap |-> heap, lut |-> lut, seed |-> seed ]
        ELSE CHOOSE val \in {Written(x) : x \in {liq_write_remapped_image_rows(
                 result, input_image,
                 BufferRows(buffer, input_image.width, input_image.height),
                 heap, lut, seed)}} : TRUE

\* set_palette of the driver: the palette and tRNS table of the output file.
set_palette(result) ==
    LET palette == liq_get_remapped_palette(result)
        trans == {i \in 0 .. palette.count - 1 : palette.entries[i + 1].a < 255}
    IN  [ num_palette |-> palette.count,
          num_trans |-> IF trans = {} THEN 0 ELSE SetMax(trans) + 1,
          palette |-> Tabulate([i \in 1 .. palette.count |->
                          [ red |-> palette.entries[i].r,
                            green |-> palette.entries[i].g,
                            blue |-> palette.entries[i].b ]]),
          trans |-> Tabulate([i \in 1 .. palette.count |-> palette.entries[i].a]) ]

liq_remapping_result_destroy(result, heap) ==
    IF result # NULL /\ result.palette # 0
    THEN pam_freecolormap(heap, result.palette) ELSE heap

liq_result_destroy(res, heap) ==
    IF res = NULL THEN heap ELSE pam_freecolormap(heap, res.palette)

liq_image_destroy(input_image) ==
    IF input_image = NULL THEN NULL
    ELSE [input_image EXCEPT
            !.pixels = IF input_image.free_pixels THEN NULL ELSE @,
            !.rows = IF input_image.free_rows THEN NULL ELSE @,
            !.noise = NULL, !.edges = NULL]

(***************************************************************************)
(* The caller.  It configures the attribute, creates the image from its    *)
(* bitmap, quantizes, sets the dithering level, remaps into its output     *)
(* plane, reads the palette and the error, destroys what it made, and may  *)
(* run the whole again on the same bitmap (pngquant_file of the driver,    *)
(* and any other user of the library).                                     *)
(***************************************************************************)
VARIABLES
    attr,        \* the liq_attr
    call,        \* the last setter call: its name, arguments and the object before it
    calls,       \* setter calls made on the object being configured
    ret,         \* the liq_error the last call returned
    src,         \* the caller's bitmap
    fixed_palette_image, \* the liq_image the palette is taken from, or NULL
    image,       \* the liq_image, or NULL
    result,      \* the liq_result, or NULL
    quantized,   \* what the last liq_quantize_image computed
    remap,       \* the liq_remapping_result, or NULL
    cmaps,       \* the heap of colormaps
    out,         \* the caller's output plane, or NULL
    gamma_lut,   \* the process-wide gamma table (pam.c)
    seed,        \* the process-wide state of rand()
    png,         \* the palette of the output file (set_palette), or NULL
    reported,    \* <<e>> once liq_get_remapping_error returned e
    first,       \* the palette and plane of the first remap of this result
    prev,        \* the palette and plane of the first remap of the previous run
    run,         \* the number of the run
    remaps,      \* remaps finished on this result
    pc,          \* the caller's position
    log,         \* the messages the caller's log callbacks received
    allocs,      \* the calls of allocation and release functions made so far
    frame        \* the locals of the library function that is running, or NULL

vars == << attr, call, calls, ret, src, fixed_palette_image, image, result, quantized, remap, cmaps,
           out, gamma_lut, seed, png, reported, first, prev, run, remaps, pc, log, allocs,
           frame >>

\* Bounds of the caller.
MaxSetterCalls == 2

MaxDitherCalls == 1

MaxRemaps == 2

MaxRuns == 2

\* A bitmap of width w and height h from the sequence of its pixels.
Bitmap(w, h, gamma, px) ==
    [ width |-> w, height |-> h, gamma |-> gamma,
      rows |-> Tabulate([row \in 0 .. h - 1 |-> Tabulate([col \in 0 .. w - 1 |-> px[row * w + col + 1]])]) ]

Gray(v) == Pixel(v, v, v, 255)

\* One colour.
BitmapFlat == Bitmap(2, 2, 0, Tabulate([k \in 1 .. 4 |-> Pixel(255, 0, 0, 255)]))

\* A fully transparent pixel, one black and two white.
BitmapTransparent ==
    Bitmap(2, 2, 0, << Pixel(255, 255, 255, 0), Pixel(0, 0, 0, 255),
                       Pixel(255, 255, 255, 255), Pixel(255, 255, 255, 255) >>)

\* Sixteen grays.
BitmapGradient == Bitmap(4, 4, 0, Tabulate([k \in 1 .. 16 |-> Gray((k - 1) * 17)]))

\* Opaque, nearly opaque, translucent and transparent pixels.
BitmapAlpha ==
    Bitmap(4, 4, 0,
        << Pixel(200, 0, 0, 255), Pixel(200, 0, 0, 255), Pixel(200, 0, 0, 250), Pixel(200, 0, 0, 250),
           Pixel(200, 0, 0, 250), Pixel(200, 0, 0, 250), Pixel(0, 0, 200, 255), Pixel(0, 0, 200, 255),
           Pixel(0, 0, 200, 255), Pixel(0, 0, 200, 255), Pixel(0, 200, 0, 128), Pixel(0, 200, 0, 128),
           Pixel(0, 0, 0, 0), Pixel(0, 0, 0, 0), Pixel(0, 0, 200, 255), Pixel(0, 0, 200, 255) >>)

\* Three colours with even channels.
BitmapEven ==
    Bitmap(3, 1, 0, << Pixel(10, 20, 30, 254), Pixel(200, 100, 0, 254), Pixel(0, 0, 0, 0) >>)

Bitmaps == {BitmapFlat, BitmapTransparent, BitmapGradient, BitmapAlpha, BitmapEven}

\* The state after liq_attr_create_with_allocator(malloc, free).
InitWith(malloc, free) ==
    /\ attr = liq_attr_create_with_allocator(malloc, free)
    /\ call = NULL
    /\ calls = 0
    /\ ret = LIQ_OK
    /\ src = NULL
    /\ fixed_palette_image = NULL
    /\ image = NULL
    /\ result = NULL
    /\ quantized = NULL
    /\ remap = NULL
    /\ cmaps = <<>>
    /\ out = NULL
    /\ gamma_lut = 0
    /\ seed = 1
    /\ png = NULL
    /\ reported = <<>>
    /\ first = NULL
    /\ prev = NULL
    /\ run = 1
    /\ remaps = 0
    /\ pc = "attr"
    /\ log = <<>>
    /\ allocs = liq_attr_create_heap(malloc)
    /\ frame = NULL

Init == InitWith("malloc", "free")

\* The variables of the pipeline, which no setter of the attribute changes.
pipeline == << src, fixed_palette_image, image, result, quantized, remap, cmaps, out, gamma_lut, seed,
               png, reported, first, prev, run, remaps, pc, log, allocs, frame >>

Configuring == pc = "attr" /\ calls < MaxSetterCalls

Called(name, args, r) ==
    /\ attr' = r.attr
    /\ ret' = r.err
    /\ call' = [name |-> name, args |-> args, before |-> attr]
    /\ calls' = calls + 1
    /\ UNCHANGED pipeline

SetQuality(Args) ==
    /\ Configuring
    /\ \E a \in Args : Called("liq_set_quality", a, liq_set_quality(attr, a[1], a[2]))

SetMaxColors(Args) ==
    /\ Configuring
    /\ \E colors \in Args :
          Called("liq_set_max_colors", <<colors>>, liq_set_max_colors(attr, colors))

SetSpeed(Args) ==
    /\ Configuring
    /\ \E speed \in Args : Called("liq_set_speed", <<speed>>, liq_set_speed(attr, speed))

SetMinOpacity(Args) ==
    /\ Configuring
    /\ \E min \in Args :
          Called("liq_set_min_opacity", <<min>>, liq_set_min_opacity(attr, min))

SetLastIndexTransparent(Args) ==
    /\ Configuring
    /\ \E is_last \in Args :
          Called("liq_set_last_index_transparent", <<is_last>>,
                 liq_set_last_index_transparent(attr, is_last))

\* liq_attr_copy; the caller goes on with the copy.
AttrCopy ==
    /\ Configuring
    /\ attr' = liq_attr_copy(attr)
    /\ allocs' = allocs \cup liq_attr_copy_heap(attr)
    /\ call' = [name |-> "liq_attr_copy", args |-> <<>>, before |-> attr]
    /\ calls' = calls + 1
    /\ UNCHANGED << ret, src, fixed_palette_image, image, result, quantized, remap,
                    cmaps, out, gamma_lut, seed, png, reported, first, prev, run,
                    remaps, pc, log, frame >>

\* liq_set_log_callback and liq_set_log_flush_callback.
SetLogCallback(Callbacks) ==
    /\ Configuring
    /\ \E callback \in Callbacks, user_info \in {NULL, [to |-> "buf"]} :
          LET r == liq_set_log_callback(attr, callback, user_info, log)
          IN  /\ attr' = r.attr
              /\ log' = r.log
              /\ call' = [ name |-> "liq_set_log_callback",
                           args |-> <<callback, user_info>>, before |-> attr ]
    /\ calls' = calls + 1
    /\ UNCHANGED << ret, src, fixed_palette_image, image, result, quantized, remap,
                    cmaps, out, gamma_lut, seed, png, reported, first, prev, run,
                    remaps, pc, allocs, frame >>

SetLogFlushCallback(Callbacks) ==
    /\ Configuring
    /\ \E callback \in Callbacks, user_info \in {NULL, [to |-> "buf"]} :
          /\ attr' = liq_set_log_flush_callback(attr, callback, user_info)
          /\ call' = [ name |-> "liq_set_log_flush_callback",
                       args |-> <<callback, user_info>>, before |-> attr ]
    /\ calls' = calls + 1
    /\ UNCHANGED << ret, src, fixed_palette_image, image, result, quantized, remap,
                    cmaps, out, gamma_lut, seed, png, reported, first, prev, run,
                    remaps, pc, log, allocs, frame >>

\* The bytes a build may produce for the NaN of modify_alpha, which arises
\* only when min_opaque_val is 0.
NanBytes == IF attr.min_opaque_val = 0 THEN {0, 255} ELSE {0}

\* The caller reads the image the palette is to be taken from (the map
\* option of the driver), once, while configuring.
ReadFixedPalette(Maps) ==
    /\ pc = "attr"
    /\ fixed_palette_image = NULL
    /\ \E b \in Maps, nan \in NanBytes :
          fixed_palette_image' = liq_image_create_rgba_rows(attr, b.rows, b.width,
                                     b.height, b.gamma, 0, nan)
    /\ gamma_lut' = IF fixed_palette_image'.modified \/ fixed_palette_image'.edges # NULL
                    THEN to_f_set_gamma(fixed_palette_image'.gamma) ELSE gamma_lut
    /\ log' = verbose_print(attr, liq_image_create_log(attr, fixed_palette_image'), log)
    /\ allocs' = allocs \cup liq_image_create_rgba_rows_heap(fixed_palette_image')
    /\ UNCHANGED << frame, attr, call, calls, ret, src, image, result, quantized,
                    remap, cmaps, out, seed, png, reported, first, prev, run, remaps,
                    pc >>

\* liq_image_create_rgba_rows on a bitmap of the caller; a later run gives
\* the bitmap of the first.
CreateImageOf(Maps) ==
    /\ pc \in {"attr", "again"}
    /\ \E b \in Maps, nan \in NanBytes :
          /\ pc = "again" => b = src
          /\ src' = b
          /\ image' = liq_image_create_rgba_rows(attr, b.rows, b.width, b.height,
                                                 b.gamma, 0, nan)
    /\ gamma_lut' = IF image'.modified \/ image'.edges # NULL
                    THEN to_f_set_gamma(image'.gamma) ELSE gamma_lut
    /\ pc' = "image"
    /\ call' = NULL
    /\ calls' = 0
    /\ log' = verbose_print(attr, liq_image_create_log(attr, image'), log)
    /\ allocs' = allocs \cup liq_image_create_rgba_rows_heap(image')
    /\ UNCHANGED << frame, attr, ret, fixed_palette_image, result, quantized, remap,
                    cmaps, out, seed, png, reported, first, prev, run, remaps >>

CreateImage == CreateImageOf(Bitmaps)

\* The pixels of a bitmap, row after row.
Flat(b) == [k \in 1 .. b.width * b.height |-> b.rows[(k - 1) \div b.width][(k - 1) % b.width]]

\* The arguments a caller may give for a bitmap b: the attribute or none, the
\* pixels or none, the size of the bitmap or a width or height that is zero
\* or negative, a gamma in and out of [0, 1], and every combination of the
\* ownership flags.
CreateArgs(b) ==
    [ attr : {attr, NULL}, pixels : {b, NULL}, width : {b.width, 0, -1},
      height : {b.height, 0, -2}, gamma : {-1, 0, DefaultGamma, 100000, 100001},
      flags : {0, LIQ_OWN_ROWS, LIQ_OWN_PIXELS, LIQ_OWN_ROWS + LIQ_OWN_PIXELS} ]

Created(name, a, img) ==
    /\ image' = img
    /\ call' = [name |-> name, args |-> a, before |-> attr]
    /\ gamma_lut' = IF img # NULL /\ (img.modified \/ img.edges # NULL)
                    THEN to_f_set_gamma(img.gamma) ELSE gamma_lut
    /\ pc' = "created"
    /\ log' = IF a.attr = NULL THEN log
              ELSE verbose_print(a.attr, liq_image_create_log(a.attr, img), log)
    /\ allocs' = allocs \cup (IF name = "liq_image_create_rgba"
                               THEN liq_image_create_rgba_heap(img)
                               ELSE liq_image_create_rgba_rows_heap(img))
    /\ UNCHANGED << frame, attr, calls, ret, src, fixed_palette_image, result,
                    quantized, remap, cmaps, out, seed, png, reported, first, prev,
                    run, remaps >>

\* liq_image_create_rgba_rows with any arguments.
CreateRows(Maps) ==
    /\ pc = "attr"
    /\ \E b \in Maps, nan \in NanBytes : \E a \in CreateArgs(b) :
          Created("liq_image_create_rgba_rows", a,
              liq_image_create_rgba_rows(a.attr,
                  IF a.pixels = NULL THEN NULL ELSE a.pixels.rows,
                  a.width, a.height, a.gamma, a.flags, nan))

\* liq_image_create_rgba with any arguments.
CreateFlat(Maps) ==
    /\ pc = "attr"
    /\ \E b \in Maps, nan \in NanBytes : \E a \in CreateArgs(b) :
          Created("liq_image_create_rgba", a,
              liq_image_create_rgba(a.attr,
                  IF a.pixels = NULL THEN NULL ELSE Flat(a.pixels),
                  a.width, a.height, a.gamma, a.flags, nan))

\* The Voronoi loop of pngquant_quantize (lines 992-1018) pass by pass, for
\* any palette error the search left and any error viter_do_iteration
\* returns.  frame holds the locals i, iterations, previous_palette_error and
\* palette_error, the iterations the loop started with (cap), the passes
\* made, the passes that raised iterations (hopeless), and whether the loop
\* has not left by a break.
MaxPasses == 12

VoronoiErrors ==
    {0, attr.max_mse \div 2, attr.max_mse, 2 * attr.max_mse,
     2 * attr.max_mse + attr.max_mse \div 4, 4 * attr.max_mse}

VoronoiEnter ==
    /\ pc = "attr"
    /\ \E palette_error \in {-D2} \cup VoronoiErrors :
          frame' = [ fn |-> "pngquant_quantize", i |-> 0,
                     iterations |-> VoronoiIterations(attr, palette_error),
                     cap |-> VoronoiIterations(attr, palette_error),
                     previous_palette_error |-> MAX_DIFF,
                     palette_error |-> palette_error,
                     passes |-> 0, hopeless |-> 0, running |-> TRUE ]
    /\ pc' = "voronoi"
    /\ UNCHANGED << attr, call, calls, ret, src, fixed_palette_image, image, result,
                    quantized, remap, cmaps, out, gamma_lut, seed, png, reported, first,
                    prev, run, remaps, log, allocs >>

VoronoiPass ==
    /\ pc = "voronoi"
    /\ frame.running
    /\ frame.i < frame.iterations
    /\ frame.passes < MaxPasses
    /\ \E error \in VoronoiErrors :
          LET control == VoronoiControl(attr, frame.previous_palette_error, error)
          IN  frame' =
                IF control = "break"
                THEN [frame EXCEPT !.palette_error = error, !.passes = @ + 1,
                                   !.running = FALSE]
                ELSE [frame EXCEPT !.palette_error = error, !.passes = @ + 1,
                                   !.previous_palette_error = error,
                                   !.i = @ + 1,
                                   !.iterations = IF control = "extend" THEN @ + 1 ELSE @,
                                   !.hopeless = IF control = "extend" THEN @ + 1 ELSE @]
    /\ UNCHANGED << attr, call, calls, ret, src, fixed_palette_image, image, result,
                    quantized, remap, cmaps, out, gamma_lut, seed, png, reported, first,
                    prev, run, remaps, pc, log, allocs >>

\* find_best_palette (lines 913-973) trial by trial.  liq_quantize_image
\* makes the histogram and pngquant_quantize calls find_best_palette unless it
\* takes the shortcut of line 982; frame holds the locals of
\* find_best_palette and the histogram.
FbpEnter ==
    /\ pc = "image"
    /\ \E hist \in {get_histogram(image, attr)} :
          /\ ~(Len(hist) <= attr.max_colors /\ attr.target_mse = 0)
          /\ frame' = FbpInit(hist, attr)
    /\ image' = [image EXCEPT !.noise = NULL]
    /\ gamma_lut' = to_f_set_gamma(image.gamma)
    /\ pc' = "search"
    /\ log' = verbose_print(attr, get_histogram_log(image, attr), log)
    /\ allocs' = allocs \cup liq_quantize_image_heap(image, NULL)
    /\ UNCHANGED << attr, call, calls, ret, src, fixed_palette_image, result,
                    quantized, remap, cmaps, out, seed, png, reported, first, prev,
                    run, remaps >>

\* One pass of the do-while.
FbpStep ==
    /\ pc = "search"
    /\ ~frame.done
    /\ frame' = FbpTrial(frame, attr)
    /\ log' = IF frame.feedback_loop_trials <= 0 THEN log
              ELSE verbose_print(attr, <<Message("  selecting colors...%d%%", <<>>)>>, log)
    /\ UNCHANGED << attr, call, calls, ret, src, fixed_palette_image, image, result,
                    quantized, remap, cmaps, out, gamma_lut, seed, png, reported,
                    first, prev, run, remaps, pc, allocs >>

\* liq_quantize_image of the image the palette is taken from: the fixed
\* palette image when the caller gave one, else the input image.
Quantize ==
    /\ pc = "image"
    /\ \E q \in {liq_quantize_image(attr, IF fixed_palette_image # NULL
                                           THEN fixed_palette_image ELSE image, cmaps)} :
           /\ result' = q.result
           /\ image' = IF fixed_palette_image # NULL THEN image ELSE q.image
           /\ fixed_palette_image' =
                  IF fixed_palette_image # NULL THEN q.image ELSE fixed_palette_image
           /\ cmaps' = q.heap
           /\ quantized' = [ palette_error |-> q.palette_error, passes |-> q.passes,
                             map |-> IF q.result = NULL THEN NULL
                                     ELSE q.heap[q.result.palette] ]
           /\ pc' = IF q.result = NULL THEN "failed" ELSE "quantized"
           /\ gamma_lut' = to_f_set_gamma(q.image.gamma)
           /\ log' = verbose_print(attr, q.logged, log)
    /\ allocs' = allocs \cup liq_quantize_image_heap(IF fixed_palette_image # NULL
                                                      THEN fixed_palette_image ELSE image,
                                                      result')
    /\ UNCHANGED << frame, attr, call, calls, ret, src, remap, out, seed, png,
                    reported, first, prev, run, remaps >>

SetDitheringLevel(Args) ==
    /\ pc = "quantized"
    /\ calls < MaxDitherCalls
    /\ \E dither_level \in Args :
          LET r == liq_set_dithering_level(result, dither_level)
          IN  /\ result' = r.res
              /\ ret' = r.err
              /\ call' = [name |-> "liq_set_dithering_level",
                          args |-> <<dither_level>>, before |-> result]
    /\ calls' = calls + 1
    /\ UNCHANGED << log, allocs, frame, attr, src, fixed_palette_image, image, quantized, remap, cmaps, out, gamma_lut,
                    seed, png, reported, first, prev, run, remaps, pc >>

\* liq_remap, and the output plane the caller allocates for it, whose bytes
\* are whatever the allocator left there.
RemapCall ==
    /\ pc = "quantized"
    /\ LET r == liq_remap(result, image, cmaps)
       IN  /\ remap' = r.res
           /\ cmaps' = r.heap
    /\ \E garbage \in {0, 255} :
          out' = Tabulate([row \in 0 .. image.height - 1 |->
                    Tabulate([col \in 0 .. image.width - 1 |-> garbage])])
    /\ pc' = "remapped"
    /\ call' = NULL
    /\ calls' = 0
    /\ png' = NULL
    /\ reported' = <<>>
    /\ allocs' = allocs \cup liq_remap_heap
    /\ UNCHANGED << log, frame, attr, ret, src, fixed_palette_image, image, result,
                    quantized, gamma_lut, seed, first, prev, run, remaps >>

Delivered(r, plane, state) ==
    [ dither_level |-> r.dither_level, int_palette |-> r.int_palette, out |-> plane,
      seed |-> state ]

WriteRows ==
    /\ pc = "remapped"
    /\ \E w \in {liq_write_remapped_image_rows(remap, image, out, cmaps, gamma_lut, seed)} :
           /\ remap' = w.result
           /\ image' = w.image
           /\ out' = w.out
           /\ cmaps' = w.heap
           /\ gamma_lut' = w.lut
           /\ seed' = w.seed
           /\ ret' = w.err
           /\ first' = IF first = NULL THEN Delivered(w.result, w.out, w.seed) ELSE first
    /\ pc' = "written"
    /\ allocs' = allocs \cup liq_write_remapped_image_rows_heap(remap)
    /\ UNCHANGED << log, frame, attr, call, calls, src, fixed_palette_image, result,
                    quantized, png, reported, prev, run, remaps >>

\* liq_write_remapped_image into a buffer of the caller that is slack bytes
\* longer than the plane (shorter when slack is negative).
WriteBuffer(Slacks) ==
    /\ pc = "remapped"
    /\ \E slack \in Slacks :
          LET size == image.width * image.height + slack
              buffer == Tabulate([k \in 1 .. size |-> 255])
          IN  \E w \in {liq_write_remapped_image(remap, image, buffer, size, cmaps,
                                                 gamma_lut, seed)} :
                 /\ remap' = w.result
                 /\ image' = w.image
                 /\ out' = w.buffer
                 /\ cmaps' = w.heap
                 /\ gamma_lut' = w.lut
                 /\ seed' = w.seed
                 /\ ret' = w.err
                 /\ call' = [ name |-> "liq_write_remapped_image",
                              args |-> <<buffer, size>>,
                              before |-> [ result |-> remap, image |-> image,
                                           heap |-> cmaps, lut |-> gamma_lut,
                                           seed |-> seed ] ]
    /\ pc' = "buffer"
    /\ allocs' = allocs \cup (IF ret' = LIQ_OK
                               THEN liq_write_remapped_image_rows_heap(remap) ELSE {})
    /\ UNCHANGED << log, frame, attr, calls, src, fixed_palette_image, result,
                    quantized, png, reported, first, prev, run, remaps >>

SetPalette ==
    /\ pc = "written"
    /\ png' = set_palette(remap)
    /\ pc' = "palette"
    /\ UNCHANGED << log, allocs, frame, attr, call, calls, ret, src, fixed_palette_image, image, result, quantized, remap,
                    cmaps, out, gamma_lut, seed, reported, first, prev, run, remaps >>

GetRemappingError ==
    /\ pc = "palette"
    /\ reported' = <<liq_get_remapping_error(remap)>>
    /\ pc' = "reported"
    /\ UNCHANGED << log, allocs, frame, attr, call, calls, ret, src, fixed_palette_image, image, result, quantized, remap,
                    cmaps, out, gamma_lut, seed, png, first, prev, run, remaps >>

RemapDestroy ==
    /\ pc = "reported"
    /\ cmaps' = liq_remapping_result_destroy(remap, cmaps)
    /\ remap' = NULL
    /\ remaps' = remaps + 1
    /\ pc' = "quantized"
    /\ allocs' = allocs \cup liq_remapping_result_destroy_heap(remap)
    /\ UNCHANGED << log, frame, attr, call, calls, ret, src, fixed_palette_image,
                    image, result, quantized, out, gamma_lut, seed, png, reported,
                    first, prev, run >>

ResultDestroy ==
    /\ pc = "quantized"
    /\ remaps > 0
    /\ cmaps' = liq_result_destroy(result, cmaps)
    /\ result' = NULL
    /\ pc' = "destroyed"
    /\ call' = NULL
    /\ calls' = 0
    /\ allocs' = allocs \cup liq_result_destroy_heap(result)
    /\ UNCHANGED << log, frame, attr, ret, src, fixed_palette_image, image, quantized,
                    remap, out, gamma_lut, seed, png, reported, first, prev, run,
                    remaps >>

ImageDestroy ==
    /\ pc \in {"destroyed", "failed"}
    /\ image' = liq_image_destroy(image)
    /\ pc' = "done"
    /\ allocs' = allocs \cup liq_image_destroy_heap(image)
    /\ UNCHANGED << log, frame, attr, call, calls, ret, src, fixed_palette_image,
                    result, quantized, remap, cmaps, out, gamma_lut, seed, png,
                    reported, first, prev, run, remaps >>

(***************************************************************************)
(* liq_write_remapped_image_rows with a dither level other than 0,         *)
(* statement by statement.  frame holds its locals and those of            *)
(* remap_to_palette_floyd: at is the statement reached, called the         *)
(* functions called so far, visited the pixels an index was stored for,    *)
(* touched the elements of the error rows read or written, step the pixel  *)
(* processed last with the error rows before it.                           *)
(***************************************************************************)
\* Lines 1062-1067.
RowsEnter ==
    /\ pc = "remapped"
    /\ remap.dither_level # 0
    /\ LET generate_dither_map == GenerateDitherMap(remap, image)
       IN  frame' = [ fn |-> "liq_write_remapped_image_rows",
                      at |-> IF generate_dither_map THEN "generate" ELSE "round",
                      entered |-> [ result |-> remap, image |-> image, out |-> out,
                                    heap |-> cmaps, lut |-> gamma_lut, seed |-> seed ],
                      remapping_error |-> remap.palette_error,
                      generate_dither_map |-> generate_dither_map,
                      called |-> <<>>, c |-> NULL, row |-> 0, fs_direction |-> TRUE,
                      st |-> NULL, visited |-> <<>>, touched |-> {}, step |-> NULL ]
    /\ pc' = "rows"
    /\ UNCHANGED << attr, call, calls, ret, src, fixed_palette_image, image, result,
                    quantized, remap, cmaps, out, gamma_lut, seed, png, reported,
                    first, prev, run, remaps, log, allocs >>

\* Lines 1069-1071.
RowsGenerate ==
    /\ pc = "rows"
    /\ frame.at = "generate"
    /\ \E m \in {remap_to_palette(image, out, cmaps[remap.palette], remap.min_opaque_val)} :
          /\ out' = m.out
          /\ cmaps' = [cmaps EXCEPT ![remap.palette] = m.map]
          /\ image' = update_dither_map(m.out, image)
          /\ frame' = [frame EXCEPT !.at = "round", !.remapping_error = m.error,
                                    !.called = @ \o <<"remap_to_palette",
                                                      "update_dither_map">>]
    /\ gamma_lut' = to_f_set_gamma(image.gamma)
    /\ UNCHANGED << attr, call, calls, ret, src, fixed_palette_image, result,
                    quantized, remap, seed, png, reported, first, prev, run, remaps,
                    pc, log, allocs >>

\* Line 1075.
RowsRound ==
    /\ pc = "rows"
    /\ frame.at = "round"
    /\ \E r \in {set_rounded_palette(remap, cmaps[remap.palette])} :
          /\ remap' = [remap EXCEPT !.int_palette = r.int_palette]
          /\ cmaps' = [cmaps EXCEPT ![remap.palette] = r.map]
    /\ frame' = [frame EXCEPT !.at = "floyd", !.called = Append(@, "set_rounded_palette")]
    /\ UNCHANGED << attr, call, calls, ret, src, fixed_palette_image, image, result,
                    quantized, out, gamma_lut, seed, png, reported, first, prev, run,
                    remaps, pc, log, allocs >>

\* Line 1077 and lines 569-598 of remap_to_palette_floyd.
FloydEnter ==
    /\ pc = "rows"
    /\ frame.at = "floyd"
    /\ \E init \in {InitThisErr(srand(12345), 0, image.width,
                                 Tabulate([i \in 0 .. image.width + 1 |-> ZeroErr]))} :
          /\ frame' = [frame EXCEPT
                          !.at = "row",
                          !.called = Append(@, "remap_to_palette_floyd"),
                          !.c = FloydContext(image, cmaps[remap.palette],
                                    remap.min_opaque_val, remap.use_dither_map,
                                    frame.generate_dither_map,
                                    MAX((frame.remapping_error * 24) \div 10, D2 \div 16)),
                          !.st = [ out |-> out, thiserr |-> init.thiserr,
                                   nexterr |-> init.thiserr, col |-> 0, more |-> TRUE,
                                   err |-> ZeroErr ],
                          !.touched = 0 .. image.width + 1]
          /\ seed' = init.state
    /\ gamma_lut' = to_f_set_gamma(image.gamma)
    /\ UNCHANGED << attr, call, calls, ret, src, fixed_palette_image, image, result,
                    quantized, remap, cmaps, out, png, reported, first, prev, run,
                    remaps, pc, log, allocs >>

\* Lines 601-604: the next row is begun.
FloydRowStart ==
    /\ pc = "rows"
    /\ frame.at = "row"
    /\ frame.row < frame.c.rows
    /\ frame' = [frame EXCEPT
                    !.at = "pixel",
                    !.st = [@ EXCEPT !.nexterr = Tabulate([i \in 0 .. frame.c.cols + 1 |-> ZeroErr]),
                                     !.col = FloydStart(frame.fs_direction, frame.c.cols),
                                     !.more = TRUE],
                    !.touched = @ \cup 0 .. frame.c.cols + 1]
    /\ UNCHANGED << attr, call, calls, ret, src, fixed_palette_image, image, result,
                    quantized, remap, cmaps, out, gamma_lut, seed, png, reported,
                    first, prev, run, remaps, pc, log, allocs >>

\* Lines 606-696: one pass of the do-while.
FloydStep ==
    /\ pc = "rows"
    /\ frame.at = "pixel"
    /\ \E st \in {FloydPixel(frame.c, frame.row, frame.fs_direction, frame.st)} :
          /\ frame' = [frame EXCEPT
                          !.at = IF st.more THEN "pixel" ELSE "turn",
                          !.st = st,
                          !.visited = Append(@, <<frame.row, frame.st.col>>),
                          !.touched = @ \cup {FloydRead(frame.st.col)}
                                        \cup {FloydShares(frame.st.col, frame.fs_direction)[k].index :
                                                 k \in 1 .. 4},
                          !.step = [ row |-> frame.row, col |-> frame.st.col,
                                     fs_direction |-> frame.fs_direction,
                                     thiserr |-> frame.st.thiserr,
                                     nexterr |-> frame.st.nexterr ]]
          /\ out' = st.out
    /\ UNCHANGED << attr, call, calls, ret, src, fixed_palette_image, image, result,
                    quantized, remap, cmaps, gamma_lut, seed, png, reported, first,
                    prev, run, remaps, pc, log, allocs >>

\* Lines 698-701.
FloydTurn ==
    /\ pc = "rows"
    /\ frame.at = "turn"
    /\ frame' = [frame EXCEPT
                    !.at = "row",
                    !.st = [@ EXCEPT !.thiserr = frame.st.nexterr,
                                     !.nexterr = frame.st.thiserr],
                    !.fs_direction = ~@,
                    !.row = @ + 1]
    /\ UNCHANGED << attr, call, calls, ret, src, fixed_palette_image, image, result,
                    quantized, remap, cmaps, out, gamma_lut, seed, png, reported,
                    first, prev, run, remaps, pc, log, allocs >>

\* Lines 703-705 and 1081-1086.
RowsReturn ==
    /\ pc = "rows"
    /\ frame.at = "row"
    /\ frame.row >= frame.c.rows
    /\ remap' = [remap EXCEPT !.palette_error = IF @ < 0 THEN frame.remapping_error ELSE @]
    /\ ret' = LIQ_OK
    /\ first' = IF first = NULL THEN Delivered(remap', out, seed) ELSE first
    /\ frame' = [frame EXCEPT !.at = "returned"]
    /\ pc' = "written"
    /\ allocs' = allocs \cup liq_write_remapped_image_rows_heap(remap)
    /\ UNCHANGED << attr, call, calls, src, fixed_palette_image, image, result,
                    quantized, cmaps, out, gamma_lut, seed, png, reported, prev, run,
                    remaps, log >>

(***************************************************************************)
(* remap_to_palette run by a team of OpenMP threads, pixel by pixel.       *)
(* frame holds its locals: rows the rows of the loop no thread has taken   *)
(* yet, team the row and column each thread is at with its private copies  *)
(* of the reduction variables, average_color the accumulators of           *)
(* viter_init (viter.c, not among the sources: colors elements for each    *)
(* thread, the element of entry match and thread t at colors * t + match), *)
(* written the stores to output_pixels and updated the elements of         *)
(* average_color written, each with the thread that made it.               *)
(***************************************************************************)
ZeroSum == [r |-> 0, g |-> 0, b |-> 0, a |-> 0, total |-> 0]

viter_init(map, max_threads) ==
    [i \in 0 .. Colors(map) * max_threads - 1 |-> ZeroSum]

\* The element of average_color of entry match that belongs to thread.
ViterSlot(map, match, thread) == Colors(map) * thread + match

viter_update_color(acolor, value, map, match, thread, average_color) ==
    [average_color EXCEPT ![ViterSlot(map, match, thread)] =
        [ r |-> @.r + acolor.r * value, g |-> @.g + acolor.g * value,
          b |-> @.b + acolor.b * value, a |-> @.a + acolor.a * value,
          total |-> @.total + value ]]

\* viter_finalize of the accumulators of max_threads threads.
viter_finalize_threads(map, max_threads, average_color) ==
    LET team == 0 .. max_threads - 1
        Slot(i, t) == average_color[Colors(map) * t + i - 1]
    IN  viter_finalize(map,
            Tabulate([i \in 1 .. Len(map) |->
                [ r |-> SumOver([t \in team |-> Slot(i, t).r], team),
                  g |-> SumOver([t \in team |-> Slot(i, t).g], team),
                  b |-> SumOver([t \in team |-> Slot(i, t).b], team),
                  a |-> SumOver([t \in team |-> Slot(i, t).a], team),
                  total |-> SumOver([t \in team |-> Slot(i, t).total], team) ]]))

\* The thread is between two rows of the loop.
NoRow == -1

\* Lines 1063-1065 and 466-476: the palette is rounded and remap_to_palette
\* is entered with a team of max_threads threads.
PlainEnter(Threads) ==
    /\ pc = "remapped"
    /\ remap.dither_level = 0
    /\ \E max_threads \in Threads, r \in {set_rounded_palette(remap, cmaps[remap.palette])} :
          /\ remap' = [remap EXCEPT !.int_palette = r.int_palette]
          /\ cmaps' = [cmaps EXCEPT ![remap.palette] = r.map]
          /\ frame' = [ fn |-> "remap_to_palette", at |-> "loop",
                        entered |-> [ image |-> image, out |-> out, map |-> r.map,
                                      min_opaque_val |-> remap.min_opaque_val,
                                      palette_error |-> remap.palette_error ],
                        max_threads |-> max_threads,
                        transparent_ind |->
                            nearest_search(r.map, [r |-> 0, g |-> 0, b |-> 0, a |-> 0],
                                           remap.min_opaque_val).idx,
                        rows |-> 0 .. image.height - 1,
                        team |-> [t \in 0 .. max_threads - 1 |->
                                     [ row |-> NoRow, col |-> 0, remapping_error |-> 0,
                                       remapped_pixels |-> 0 ]],
                        average_color |-> viter_init(r.map, max_threads),
                        written |-> <<>>, updated |-> {}, result |-> NULL ]
    /\ gamma_lut' = to_f_set_gamma(image.gamma)
    /\ pc' = "plain"
    /\ UNCHANGED << attr, call, calls, ret, src, fixed_palette_image, image, result,
                    quantized, out, seed, png, reported, first, prev, run, remaps, log,
                    allocs >>

\* Line 478: a thread of the team is given a row of the loop.
PlainTake ==
    /\ pc = "plain"
    /\ frame.at = "loop"
    /\ \E t \in DOMAIN frame.team, row \in frame.rows :
          /\ frame.team[t].row = NoRow
          /\ frame' = [frame EXCEPT !.rows = @ \ {row},
                                    !.team[t].row = row,
                                    !.team[t].col = 0]
    /\ UNCHANGED << attr, call, calls, ret, src, fixed_palette_image, image, result,
                    quantized, remap, cmaps, out, gamma_lut, seed, png, reported,
                    first, prev, run, remaps, pc, log, allocs >>

\* Lines 479-497: a thread remaps the next pixel of its row.
PlainPixel ==
    /\ pc = "plain"
    /\ frame.at = "loop"
    /\ \E t \in DOMAIN frame.team :
          /\ frame.team[t].row # NoRow
          /\ LET row == frame.team[t].row
                 col == frame.team[t].col
             IN  \E p \in {RemapPixel(image, gamma_lut, frame.entered.map,
                                      frame.entered.min_opaque_val,
                                      frame.transparent_ind, row * image.width + col)} :
                    /\ out' = [out EXCEPT ![row][col] = p.match]
                    /\ frame' = [frame EXCEPT
                          !.team[t] = [ row |-> IF col + 1 < image.width THEN row ELSE NoRow,
                                        col |-> col + 1,
                                        remapping_error |-> @.remapping_error + p.diff,
                                        remapped_pixels |-> @.remapped_pixels + p.remapped ],
                          !.average_color =
                              viter_update_color(p.px, 1, frame.entered.map, p.match, t, @),
                          !.written = Append(@, [by |-> t, row |-> row, col |-> col]),
                          !.updated = @ \cup {[ by |-> t,
                                                slot |-> ViterSlot(frame.entered.map,
                                                                   p.match, t) ]}]
    /\ UNCHANGED << attr, call, calls, ret, src, fixed_palette_image, image, result,
                    quantized, remap, cmaps, gamma_lut, seed, png, reported, first,
                    prev, run, remaps, pc, log, allocs >>

\* Lines 500-506 and 1081-1086: the reductions, viter_finalize and the
\* return of liq_write_remapped_image_rows.
PlainReturn ==
    /\ pc = "plain"
    /\ frame.at = "loop"
    /\ frame.rows = {}
    /\ \A t \in DOMAIN frame.team : frame.team[t].row = NoRow
    /\ LET team == DOMAIN frame.team
           remapping_error == SumOver([t \in team |-> frame.team[t].remapping_error], team)
           remapped_pixels == SumOver([t \in team |-> frame.team[t].remapped_pixels], team)
       IN  \E r \in {[ error |-> remapping_error \div MAX(1, remapped_pixels),
                       remapped_pixels |-> remapped_pixels, out |-> out,
                       map |-> viter_finalize_threads(frame.entered.map,
                                   frame.max_threads, frame.average_color) ]} :
              /\ frame' = [frame EXCEPT !.at = "returned", !.result = r]
              /\ cmaps' = [cmaps EXCEPT ![remap.palette] = r.map]
              /\ remap' = [remap EXCEPT !.palette_error = IF @ < 0 THEN r.error ELSE @]
    /\ ret' = LIQ_OK
    /\ first' = IF first = NULL THEN Delivered(remap', out, seed) ELSE first
    /\ pc' = "written"
    /\ allocs' = allocs \cup liq_write_remapped_image_rows_heap(remap)
    /\ UNCHANGED << attr, call, calls, src, fixed_palette_image, image, result,
                    quantized, out, gamma_lut, seed, png, reported, prev, run, remaps,
                    log >>

(***************************************************************************)
(* The caller that owns nothing of the image, or hands over the rows, the  *)
(* pixels or both, and destroys the image at any time after it made it.    *)
(***************************************************************************)
\* The calls of free liq_image_destroy makes, in order (lines 304-322).
liq_image_destroy_frees(input_image) ==
    IF input_image = NULL THEN <<>>
    ELSE (IF input_image.free_pixels /\ input_image.pixels # NULL
          THEN <<"pixels">> ELSE <<>>)
         \o (IF input_image.free_rows /\ input_image.rows # NULL
             THEN <<"rows">> ELSE <<>>)
         \o (IF input_image.noise # NULL THEN <<"noise">> ELSE <<>>)
         \o (IF input_image.edges # NULL THEN <<"edges">> ELSE <<>>)

\* Either constructor with any ownership flags it accepts.
CreateOwned(Maps) ==
    /\ pc = "attr"
    /\ \E b \in Maps, nan \in NanBytes, flat \in BOOLEAN,
          flags \in {0, LIQ_OWN_ROWS, LIQ_OWN_PIXELS, LIQ_OWN_ROWS + LIQ_OWN_PIXELS} :
          /\ flat => ~HasFlag(flags, LIQ_OWN_ROWS)
          /\ src' = b
          /\ image' = IF flat
                      THEN liq_image_create_rgba(attr, Flat(b), b.width, b.height,
                                                 b.gamma, flags, nan)
                      ELSE liq_image_create_rgba_rows(attr, b.rows, b.width, b.height,
                                                      b.gamma, flags, nan)
          /\ allocs' = allocs \cup (IF flat THEN liq_image_create_rgba_heap(image')
                                    ELSE liq_image_create_rgba_rows_heap(image'))
    /\ gamma_lut' = IF image'.modified \/ image'.edges # NULL
                    THEN to_f_set_gamma(image'.gamma) ELSE gamma_lut
    /\ pc' = "image"
    /\ call' = NULL
    /\ calls' = 0
    /\ log' = verbose_print(attr, liq_image_create_log(attr, image'), log)
    /\ UNCHANGED << frame, attr, ret, fixed_palette_image, result, quantized, remap,
                    cmaps, out, seed, png, reported, first, prev, run, remaps >>

\* liq_image_destroy; frame keeps the image as it was at the call and the
\* calls of free made.
DestroyOwned ==
    /\ pc \in {"image", "destroyed", "failed"}
    /\ image' = liq_image_destroy(image)
    /\ frame' = [ fn |-> "liq_image_destroy", before |-> image,
                  freed |-> liq_image_destroy_frees(image) ]
    /\ pc' = "done"
    /\ allocs' = allocs \cup liq_image_destroy_heap(image)
    /\ UNCHANGED << log, attr, call, calls, ret, src, fixed_palette_image, result,
                    quantized, remap, cmaps, out, gamma_lut, seed, png, reported,
                    first, prev, run, remaps >>

\* sort_palette of a colormap of the caller's making.
SortPalette(Maps) ==
    /\ pc = "attr"
    /\ frame = NULL
    /\ \E map \in Maps :
          frame' = [ fn |-> "sort_palette", map |-> map, options |-> attr,
                     sorted |-> sort_palette(map, attr) ]
    /\ UNCHANGED << attr, call, calls, ret, src, fixed_palette_image, image, result,
                    quantized, remap, cmaps, out, gamma_lut, seed, png, reported,
                    first, prev, run, remaps, pc, log, allocs >>

\* A pointer to the function or object called name.
Pointer(name) == [to |-> name]

(***************************************************************************)
(* The batch driver (main of src/unnamed/part_001) built with OpenMP.      *)
(* frame holds the locals of main: the shared options, the iteration to    *)
(* hand out next, and for every thread of the team the iteration it runs   *)
(* and its opts; bufs[i] is the struct buffered_log of iteration i,        *)
(* stderr what was written to the standard error, appends the calls of     *)
(* log_callback_buferred (the buffer, the iteration that made the call,    *)
(* whether the buffer was still in scope), destroyed the iterations whose  *)
(* attribute was destroyed, conversions the calls of to_f (the iteration,  *)
(* the gamma it set the table for, the pixel and the result).  An          *)
(* iteration is a number of 1 .. num_files; 0 is main after the loop.      *)
(***************************************************************************)
LOG_BUFFER_SIZE == 1300

\* log_callback_buferred_flush: the buffer after it and what fwrite wrote.
log_callback_buferred_flush(buffered_log) ==
    IF buffered_log.buf_used # 0
    THEN [ log |-> [buffered_log EXCEPT !.buf_used = 0, !.held = <<>>],
           written |-> buffered_log.held ]
    ELSE [ log |-> buffered_log, written |-> <<>> ]

\* log_callback_buferred for a message of len characters sent by iteration
\* by.
log_callback_buferred(buffered_log, by, len) ==
    LET len1 == IF len > LOG_BUFFER_SIZE - 2 THEN LOG_BUFFER_SIZE - 2 ELSE len
        Stored(fl) ==
            [ log |-> [fl.log EXCEPT !.buf_used = @ + len1 + 1,
                                     !.held = Append(@, [by |-> by, len |-> len1]),
                                     !.top = MAX(@, fl.log.buf_used + len1 + 1)],
              written |-> fl.written ]
    IN  Stored(IF len1 > LOG_BUFFER_SIZE - buffered_log.buf_used - 2
               THEN log_callback_buferred_flush(buffered_log)
               ELSE [log |-> buffered_log, written |-> <<>>])

\* A call of the log callback with its user info, made by iteration by for
\* a message of len characters, on the locals f of main.  A buffer that is
\* no longer in scope takes the bytes or not (stored).
LogCall(f, callback, user_info, by, len, stored) ==
    IF callback = NULL THEN f
    ELSE IF callback = Pointer("log_callback")
    THEN [f EXCEPT !.stderr = Append(@, [by |-> by, len |-> len])]
    ELSE IF user_info = NULL THEN [f EXCEPT !.crashed = TRUE]
    ELSE LET b == user_info.to
             r == log_callback_buferred(f.bufs[b], by, len)
         IN  [f EXCEPT !.bufs[b] = IF f.bufs[b].live \/ stored THEN r.log ELSE @,
                       !.stderr = IF f.bufs[b].live \/ stored THEN @ \o r.written ELSE @,
                       !.appends = @ \cup {[ buf |-> b, by |-> by,
                                              live |-> f.bufs[b].live ]}]

\* The case 'v' of the options (lines 270-273).
OptionVerbose ==
    /\ Configuring
    /\ LET r == liq_set_log_callback(attr, Pointer("log_callback"), NULL, log)
       IN  /\ attr' = r.attr
           /\ log' = r.log
    /\ call' = [ name |-> "liq_set_log_callback",
                 args |-> <<Pointer("log_callback"), NULL>>, before |-> attr ]
    /\ calls' = calls + 1
    /\ UNCHANGED << ret, src, fixed_palette_image, image, result, quantized, remap,
                    cmaps, out, gamma_lut, seed, png, reported, first, prev, run,
                    remaps, pc, allocs, frame >>

BatchRunning == pc = "batch" /\ frame.at = "loop" /\ ~frame.crashed

\* Line 376: the team of threads enters the loop over the files.
BatchEnter(Files, Threads) ==
    /\ pc = "attr"
    /\ frame = NULL
    /\ \E num_files \in Files, num_threads \in Threads :
          frame' = [ fn |-> "main", at |-> "loop", crashed |-> FALSE,
                     num_files |-> num_files, num_threads |-> num_threads,
                     next |-> 1,
                     options |-> [ log_callback |-> attr.log_callback,
                                   log_callback_user_info |-> NULL ],
                     workers |-> [w \in 1 .. num_threads |->
                                     [at |-> "idle", i |-> 0, opts |-> NULL]],
                     bufs |-> [i \in 1 .. num_files |-> NULL],
                     stderr |-> <<>>, appends |-> {}, destroyed |-> {},
                     conversions |-> {} ]
    /\ pc' = "batch"
    /\ UNCHANGED << attr, call, calls, ret, src, fixed_palette_image, image, result,
                    quantized, remap, cmaps, out, gamma_lut, seed, png, reported,
                    first, prev, run, remaps, log, allocs >>

\* schedule(dynamic): an idle thread takes the next iteration.
BatchTake ==
    /\ BatchRunning
    /\ frame.next <= frame.num_files
    /\ \E w \in DOMAIN frame.workers :
          /\ frame.workers[w].at = "idle"
          /\ frame' = [frame EXCEPT !.next = @ + 1,
                                    !.workers[w] = [at |-> "copy", i |-> frame.next,
                                                    opts |-> NULL]]
    /\ UNCHANGED << attr, call, calls, ret, src, fixed_palette_image, image, result,
                    quantized, remap, cmaps, out, gamma_lut, seed, png, reported,
                    first, prev, run, remaps, pc, log, allocs >>

\* Lines 379-380: opts = options, of which log_callback is read here.
BatchCopy ==
    /\ BatchRunning
    /\ \E w \in DOMAIN frame.workers :
          /\ frame.workers[w].at = "copy"
          /\ frame' = [frame EXCEPT
                          !.workers[w].at = "copy_info",
                          !.workers[w].opts =
                              [ log_callback |-> frame.options.log_callback,
                                log_callback_user_info |-> NULL,
                                liq |-> liq_attr_copy(attr) ]]
    /\ UNCHANGED << attr, call, calls, ret, src, fixed_palette_image, image, result,
                    quantized, remap, cmaps, out, gamma_lut, seed, png, reported,
                    first, prev, run, remaps, pc, log, allocs >>

\* Lines 379 and 385: log_callback_user_info is read, and buf is declared.
BatchCopyInfo ==
    /\ BatchRunning
    /\ \E w \in DOMAIN frame.workers :
          /\ frame.workers[w].at = "copy_info"
          /\ frame' = [frame EXCEPT
                          !.workers[w].at = "install",
                          !.workers[w].opts.log_callback_user_info =
                              frame.options.log_callback_user_info,
                          !.bufs[frame.workers[w].i] =
                              [buf_used |-> 0, held |-> <<>>, top |-> 0, live |-> TRUE]]
    /\ UNCHANGED << attr, call, calls, ret, src, fixed_palette_image, image, result,
                    quantized, remap, cmaps, out, gamma_lut, seed, png, reported,
                    first, prev, run, remaps, pc, log, allocs >>

\* Lines 386-389.
BatchInstall ==
    /\ BatchRunning
    /\ \E w \in DOMAIN frame.workers :
          LET worker == frame.workers[w]
              buf == [to |-> worker.i]
          IN  /\ worker.at = "install"
              /\ frame' =
                    IF worker.opts.log_callback # NULL /\ frame.num_threads > 1
                       /\ frame.num_files > 1
                    THEN [frame EXCEPT
                            !.workers[w].at = "install_info",
                            !.workers[w].opts.liq =
                                liq_set_log_flush_callback(
                                    liq_set_log_callback(@,
                                        Pointer("log_callback_buferred"), buf, <<>>).attr,
                                    Pointer("log_callback_buferred_flush"), buf),
                            !.options.log_callback = Pointer("log_callback_buferred")]
                    ELSE [frame EXCEPT !.workers[w].at = "file"]
    /\ UNCHANGED << attr, call, calls, ret, src, fixed_palette_image, image, result,
                    quantized, remap, cmaps, out, gamma_lut, seed, png, reported,
                    first, prev, run, remaps, pc, log, allocs >>

\* Line 390.
BatchInstallInfo ==
    /\ BatchRunning
    /\ \E w \in DOMAIN frame.workers :
          /\ frame.workers[w].at = "install_info"
          /\ frame' = [frame EXCEPT
                          !.workers[w].at = "file",
                          !.options.log_callback_user_info = [to |-> frame.workers[w].i]]
    /\ UNCHANGED << attr, call, calls, ret, src, fixed_palette_image, image, result,
                    quantized, remap, cmaps, out, gamma_lut, seed, png, reported,
                    first, prev, run, remaps, pc, log, allocs >>

\* A verbose_printf(options, ...) of pngquant_file (line 449 and others).
BatchDriverMessage(Lens) ==
    /\ BatchRunning
    /\ \E w \in DOMAIN frame.workers, len \in Lens, stored \in BOOLEAN :
          LET worker == frame.workers[w]
          IN  /\ worker.at = "file"
              /\ frame' = [LogCall(frame, worker.opts.log_callback,
                                   worker.opts.log_callback_user_info, worker.i, len,
                                   stored)
                              EXCEPT !.workers[w].at = "read"]
    /\ UNCHANGED << attr, call, calls, ret, src, fixed_palette_image, image, result,
                    quantized, remap, cmaps, out, gamma_lut, seed, png, reported,
                    first, prev, run, remaps, pc, log, allocs >>

\* A message of the library made for the attribute of the iteration.
BatchLibraryMessage(Lens) ==
    /\ BatchRunning
    /\ \E w \in DOMAIN frame.workers, len \in Lens, stored \in BOOLEAN :
          LET worker == frame.workers[w]
          IN  /\ worker.at = "library"
              /\ frame' = [LogCall(frame, worker.opts.liq.log_callback,
                                   worker.opts.liq.log_callback_user_info, worker.i, len,
                                   stored)
                              EXCEPT !.workers[w].at = "round"]
    /\ UNCHANGED << attr, call, calls, ret, src, fixed_palette_image, image, result,
                    quantized, remap, cmaps, out, gamma_lut, seed, png, reported,
                    first, prev, run, remaps, pc, log, allocs >>

\* read_image (line 645): the image has the gamma of the file.
BatchReadImage(Gammas) ==
    /\ BatchRunning
    /\ \E w \in DOMAIN frame.workers, gamma \in Gammas :
          /\ frame.workers[w].at = "read"
          /\ frame' = [frame EXCEPT
                          !.workers[w] = [@ EXCEPT !.at = "library"] @@ [gamma |-> gamma]]
    /\ UNCHANGED << attr, call, calls, ret, src, fixed_palette_image, image, result,
                    quantized, remap, cmaps, out, gamma_lut, seed, png, reported,
                    first, prev, run, remaps, pc, log, allocs >>

\* set_rounded_palette, line 449: to_f_set_gamma(result->gamma).
BatchRound ==
    /\ BatchRunning
    /\ \E w \in DOMAIN frame.workers :
          /\ frame.workers[w].at = "round"
          /\ frame' = [frame EXCEPT !.workers[w].at = "round_to_f"]
    /\ gamma_lut' = to_f_set_gamma(DefaultGamma)
    /\ UNCHANGED << attr, call, calls, ret, src, fixed_palette_image, image, result,
                    quantized, remap, cmaps, out, seed, png, reported, first, prev,
                    run, remaps, pc, log, allocs >>

\* A call of to_f by iteration by, which set the table for gamma before.
Conversion(by, gamma, px) ==
    [by |-> by, gamma |-> gamma, px |-> px, f |-> to_f(gamma_lut, px)]

\* set_rounded_palette, line 454: to_f(px) of a palette entry.
BatchRoundConvert(Pixels) ==
    /\ BatchRunning
    /\ \E w \in DOMAIN frame.workers, px \in Pixels :
          /\ frame.workers[w].at = "round_to_f"
          /\ frame' = [frame EXCEPT
                          !.workers[w].at = "remap",
                          !.conversions = @ \cup {Conversion(frame.workers[w].i,
                                                             DefaultGamma, px)}]
    /\ UNCHANGED << attr, call, calls, ret, src, fixed_palette_image, image, result,
                    quantized, remap, cmaps, out, gamma_lut, seed, png, reported,
                    first, prev, run, remaps, pc, log, allocs >>

\* remap_to_palette, line 466: to_f_set_gamma(input_image->gamma).
BatchSetGamma ==
    /\ BatchRunning
    /\ \E w \in DOMAIN frame.workers :
          /\ frame.workers[w].at = "remap"
          /\ frame' = [frame EXCEPT !.workers[w].at = "to_f"]
          /\ gamma_lut' = to_f_set_gamma(frame.workers[w].gamma)
    /\ UNCHANGED << attr, call, calls, ret, src, fixed_palette_image, image, result,
                    quantized, remap, cmaps, out, seed, png, reported, first, prev,
                    run, remaps, pc, log, allocs >>

\* remap_to_palette, line 476: to_f(input_pixels[row][col]).
BatchConvert(Pixels) ==
    /\ BatchRunning
    /\ \E w \in DOMAIN frame.workers, px \in Pixels :
          /\ frame.workers[w].at = "to_f"
          /\ frame' = [frame EXCEPT
                          !.workers[w].at = "destroy",
                          !.conversions = @ \cup {Conversion(frame.workers[w].i,
                                                             frame.workers[w].gamma, px)}]
    /\ UNCHANGED << attr, call, calls, ret, src, fixed_palette_image, image, result,
                    quantized, remap, cmaps, out, gamma_lut, seed, png, reported,
                    first, prev, run, remaps, pc, log, allocs >>

\* Line 396: liq_attr_destroy(opts.liq), which flushes.
BatchDestroy ==
    /\ BatchRunning
    /\ \E w \in DOMAIN frame.workers :
          LET worker == frame.workers[w]
              liq == worker.opts.liq
              Flushed(b, r) == [frame EXCEPT !.bufs[b] = r.log,
                                             !.stderr = @ \o r.written]
          IN  /\ worker.at = "destroy"
              /\ frame' = [(IF liq.log_flush_callback = NULL THEN frame
                            ELSE Flushed(liq.log_flush_callback_user_info.to,
                                    log_callback_buferred_flush(
                                        frame.bufs[liq.log_flush_callback_user_info.to])))
                              EXCEPT !.workers[w].at = "end",
                                     !.destroyed = @ \cup {worker.i}]
    /\ allocs' = allocs \cup {HeapCall(attr.free, "liq_attr")}
    /\ UNCHANGED << attr, call, calls, ret, src, fixed_palette_image, image, result,
                    quantized, remap, cmaps, out, gamma_lut, seed, png, reported,
                    first, prev, run, remaps, pc, log >>

\* Line 409: the iteration ends and buf goes out of scope.
BatchEnd ==
    /\ BatchRunning
    /\ \E w \in DOMAIN frame.workers :
          /\ frame.workers[w].at = "end"
          /\ frame' = [frame EXCEPT
                          !.workers[w] = [at |-> "idle", i |-> 0, opts |-> NULL],
                          !.bufs[frame.workers[w].i].live = FALSE]
    /\ UNCHANGED << attr, call, calls, ret, src, fixed_palette_image, image, result,
                    quantized, remap, cmaps, out, gamma_lut, seed, png, reported,
                    first, prev, run, remaps, pc, log, allocs >>

\* Lines 411-428: the summary and liq_attr_destroy(options.liq).
BatchSummary(Lens) ==
    /\ BatchRunning
    /\ frame.next > frame.num_files
    /\ \A w \in DOMAIN frame.workers : frame.workers[w].at = "idle"
    /\ \E len \in Lens, stored \in BOOLEAN :
          frame' = [LogCall(frame, frame.options.log_callback,
                            frame.options.log_callback_user_info, 0, len, stored)
                      EXCEPT !.at = "returned"]
    /\ log' = verbose_printf_flush(attr, log)
    /\ allocs' = allocs \cup {HeapCall(attr.free, "liq_attr")}
    /\ UNCHANGED << attr, call, calls, ret, src, fixed_palette_image, image, result,
                    quantized, remap, cmaps, out, gamma_lut, seed, png, reported,
                    first, prev, run, remaps, pc >>

\* The first remap of a result, and a further one.
LiqRemap == remaps = 0 /\ RemapCall

RemapAgain == remaps > 0 /\ remaps < MaxRemaps /\ RemapCall

\* The caller starts over with the same attribute and bitmap.
RunAgain ==
    /\ pc = "done"
    /\ run < MaxRuns
    /\ remaps = 1
    /\ run' = run + 1
    /\ prev' = first
    /\ first' = NULL
    /\ remaps' = 0
    /\ png' = NULL
    /\ reported' = <<>>
    /\ out' = NULL
    /\ quantized' = NULL
    /\ image' = NULL
    /\ pc' = "again"
    /\ UNCHANGED << log, allocs, frame, attr, call, calls, ret, src, fixed_palette_image, result, remap, cmaps, gamma_lut, seed >>

\* The arguments the caller of the pipeline passes to the setters.
Speeds == 1 .. 10

Qualities == {<<100, 100>>, <<60, 30>>}

ColorCounts == {2, 3}

DitherLevels == {0, FS, 2 * FS}

\* The pipeline, once: one remap of one result.
Once ==
    \/ CreateImage
    \/ Quantize
    \/ SetDitheringLevel(DitherLevels)
    \/ LiqRemap
    \/ WriteRows
    \/ SetPalette
    \/ GetRemappingError
    \/ RemapDestroy
    \/ ResultDestroy
    \/ ImageDestroy

Next ==
    \/ SetQuality(Qualities)
    \/ SetMaxColors(ColorCounts)
    \/ SetSpeed(Speeds)
    \/ SetLastIndexTransparent({1})
    \/ Once

Spec == Init /\ [][Next]_vars

(***************************************************************************)
(* The caller that remaps a result more than once and runs the pipeline    *)
(* more than once, at a slow and a fast speed.                             *)
(***************************************************************************)
NextRepeat ==
    \/ SetSpeed({1, 8})
    \/ SetMaxColors({2})
    \/ Once
    \/ RemapAgain
    \/ RunAgain

SpecRepeat == Init /\ [][NextRepeat]_vars

(***************************************************************************)
(* The caller that may take the palette from another image than the one it *)
(* remaps.                                                                 *)
(***************************************************************************)
NextFixed ==
    \/ SetSpeed({5, 10})
    \/ SetMaxColors(ColorCounts)
    \/ ReadFixedPalette(Bitmaps)
    \/ Once

SpecFixed == Init /\ [][NextFixed]_vars

(***************************************************************************)
(* The caller that only configures the attribute, with arguments in and    *)
(* out of range.                                                           *)
(***************************************************************************)
NextAttr ==
    \/ SetQuality({<<t, m>> : t \in {-1, 0, 50, 100, 101}, m \in {-1, 0, 50, 100, 101}})
    \/ SetMaxColors({-1, 0, 1, 2, 3, 255, 256, 257})
    \/ SetSpeed(-1 .. 12)
    \/ SetMinOpacity({-1, 0, 1, 128, 254, 255, 256})
    \/ SetLastIndexTransparent({-1, 0, 1, 2})

SpecAttr == Init /\ [][NextAttr]_vars

(***************************************************************************)
(* The caller that has the plane written into one buffer, which may be too *)
(* short.                                                                  *)
(***************************************************************************)
\* Six colours, wider than high.
BitmapWide ==
    Bitmap(3, 2, 0, << Gray(0), Gray(0), Gray(255), Gray(255), Gray(0), Gray(255) >>)

BufferSlacks == {-1, 0, 1}

NextBuffer ==
    \/ SetMaxColors(ColorCounts)
    \/ SetSpeed({3, 10})
    \/ CreateImageOf({BitmapGradient, BitmapWide})
    \/ Quantize
    \/ SetDitheringLevel(DitherLevels)
    \/ LiqRemap
    \/ WriteBuffer(BufferSlacks)

SpecBuffer == Init /\ [][NextBuffer]_vars

(***************************************************************************)
(* The caller that creates an image with arguments in and out of range.    *)
(***************************************************************************)
NextCreate ==
    \/ SetSpeed({3, 8})
    \/ SetMinOpacity({0, 128})
    \/ CreateRows({BitmapTransparent, BitmapGradient, BitmapWide})
    \/ CreateFlat({BitmapTransparent, BitmapGradient, BitmapWide})

SpecCreate == Init /\ [][NextCreate]_vars

(***************************************************************************)
(* The Voronoi loop of pngquant_quantize, pass by pass.                    *)
(***************************************************************************)
NextVoronoi ==
    \/ SetSpeed({5, 7, 10})
    \/ SetQuality({<<100, 30>>, <<60, 0>>})
    \/ VoronoiEnter
    \/ VoronoiPass

SpecVoronoi == Init /\ [][NextVoronoi]_vars

(***************************************************************************)
(* The palette search of find_best_palette, trial by trial.                *)
(***************************************************************************)
NextTrials ==
    \/ SetSpeed({4, 5, 6, 7})
    \/ SetQuality(Qualities \cup {<<90, 0>>})
    \/ SetMaxColors(ColorCounts \cup {4})
    \/ CreateImage
    \/ FbpEnter
    \/ FbpStep

SpecTrials == Init /\ [][NextTrials]_vars

(***************************************************************************)
(* The caller that installs, replaces and removes log callbacks before it  *)
(* runs the pipeline.                                                      *)
(***************************************************************************)
\* A pointer to a function or to an object of the caller is a record that
\* names it, or NULL.
LogCallbacks == {NULL, Pointer("log_callback"), Pointer("log_callback_buferred")}

LogFlushCallbacks == {NULL, Pointer("log_callback_buferred_flush")}

NextLog ==
    \/ SetLogCallback(LogCallbacks)
    \/ SetLogFlushCallback(LogFlushCallbacks)
    \/ SetSpeed({5, 8})
    \/ SetQuality(Qualities)
    \/ SetMinOpacity({128})
    \/ CreateImageOf({BitmapTransparent, BitmapGradient, BitmapAlpha})
    \/ Quantize
    \/ SetDitheringLevel({FS})
    \/ LiqRemap
    \/ WriteRows

SpecLog == Init /\ [][NextLog]_vars

(***************************************************************************)
(* The caller that created the attribute with an allocator pair of its     *)
(* own.                                                                    *)
(***************************************************************************)
NextAlloc ==
    \/ AttrCopy
    \/ SetSpeed({3, 8})
    \/ SetMaxColors(ColorCounts)
    \/ Once

SpecAlloc == InitWith("my_malloc", "my_free") /\ [][NextAlloc]_vars

(***************************************************************************)
(* The caller whose dithered remaps are followed statement by statement,   *)
(* for images of every shape.                                              *)
(***************************************************************************)
\* One column of three pixels.
BitmapColumn == Bitmap(1, 3, 0, << Gray(0), Gray(128), Gray(255) >>)

\* One pixel.
BitmapDot == Bitmap(1, 1, 0, << Gray(90) >>)

\* Black and white columns in turn.
BitmapStripes ==
    Bitmap(4, 4, 0, Tabulate([k \in 1 .. 16 |-> Gray(IF k % 2 = 1 THEN 0 ELSE 255)]))

NextRows ==
    \/ SetSpeed({3, 6, 10})
    \/ SetMaxColors({2, 3})
    \/ CreateImageOf({BitmapGradient, BitmapAlpha, BitmapWide, BitmapEven, BitmapColumn,
                      BitmapDot, BitmapStripes})
    \/ Quantize
    \/ SetDitheringLevel({FS})
    \/ LiqRemap
    \/ RowsEnter
    \/ RowsGenerate
    \/ RowsRound
    \/ FloydEnter
    \/ FloydRowStart
    \/ FloydStep
    \/ FloydTurn
    \/ RowsReturn
    \/ SetPalette
    \/ GetRemappingError
    \/ RemapDestroy
    \/ RemapAgain

SpecRows == Init /\ [][NextRows]_vars

(***************************************************************************)
(* The colormaps sort_palette is given: entries that are transparent,      *)
(* translucent or opaque, of two popularities.                             *)
(***************************************************************************)
MaxSortColors == 4

SortEntries ==
    { [ acolor |-> [r |-> a, g |-> a, b |-> a, a |-> a], popularity |-> p ] :
        a \in {0, FS \div 2, FS}, p \in {1, 2} }

SortPalettes == UNION { [1 .. n -> SortEntries] : n \in 1 .. MaxSortColors }

NextSort ==
    \/ SetLastIndexTransparent({0, 1})
    \/ SortPalette(SortPalettes)

SpecSort == Init /\ [][NextSort]_vars

(***************************************************************************)
(* The undithered remap followed pixel by pixel, for a team of one or two  *)
(* threads.  The loop is run by a team whatever the size of the image: the *)
(* if clause of line 478 makes the team one thread below 3000 pixels.      *)
(***************************************************************************)
PlainThreads == {1, 2}

NextPlain ==
    \/ SetMaxColors({2, 3})
    \/ CreateImageOf({BitmapTransparent, BitmapEven, BitmapColumn, BitmapFlat})
    \/ Quantize
    \/ SetDitheringLevel({0})
    \/ LiqRemap
    \/ PlainEnter(PlainThreads)
    \/ PlainTake
    \/ PlainPixel
    \/ PlainReturn
    \/ SetPalette
    \/ GetRemappingError
    \/ RemapDestroy
    \/ RemapAgain

SpecPlain == Init /\ [][NextPlain]_vars

(***************************************************************************)
(* The caller that destroys the image after creation, quantization and any *)
(* number of remaps, dithered or not.                                      *)
(***************************************************************************)
NextDestroy ==
    \/ SetSpeed({3, 8})
    \/ SetMaxColors({2})
    \/ CreateOwned({BitmapGradient, BitmapTransparent})
    \/ Quantize
    \/ SetDitheringLevel({0, FS})
    \/ LiqRemap
    \/ WriteRows
    \/ SetPalette
    \/ GetRemappingError
    \/ RemapDestroy
    \/ RemapAgain
    \/ ResultDestroy
    \/ DestroyOwned

SpecDestroy == Init /\ [][NextDestroy]_vars

(***************************************************************************)
(* The caller that sets any minimum opacity and creates an image with      *)
(* pixels of every degree of transparency.                                 *)
(***************************************************************************)
MinOpacities == -1 .. 256

NextOpacity ==
    \/ SetMinOpacity(MinOpacities)
    \/ CreateImageOf({BitmapEven, BitmapTransparent})

SpecOpacity == Init /\ [][NextOpacity]_vars

(***************************************************************************)
(* The batch driver quantizing one or two files with a team of one or two  *)
(* threads.                                                                *)
(***************************************************************************)
BatchFiles == {1, 2}

\* The gammas of the files.
BatchGammas == {DefaultGamma, LinearGamma}

\* The pixel converted.
BatchPixels == {Gray(128)}

BatchThreads == {1, 2}

\* Message lengths: short, and longer than the buffer.
BatchLens == {40, 1400}

NextBatch ==
    \/ OptionVerbose
    \/ BatchEnter(BatchFiles, BatchThreads)
    \/ BatchTake
    \/ BatchCopy
    \/ BatchCopyInfo
    \/ BatchInstall
    \/ BatchInstallInfo
    \/ BatchDriverMessage(BatchLens)
    \/ BatchReadImage(BatchGammas)
    \/ BatchLibraryMessage(BatchLens)
    \/ BatchRound
    \/ BatchRoundConvert(BatchPixels)
    \/ BatchSetGamma
    \/ BatchConvert(BatchPixels)
    \/ BatchDestroy
    \/ BatchEnd
    \/ BatchSummary(BatchLens)

SpecBatch == Init /\ [][NextBatch]_vars

(***************************************************************************)
(* The properties.                                                         *)
(***************************************************************************)
\* The positions at which the remapped image has been written.
Written == pc \in {"written", "palette", "reported"}

Planes == {out[row][col] : row \in 0 .. image.height - 1, col \in 0 .. image.width - 1}

\* C1: after a successful liq_quantize_image, liq_remap and
\* liq_write_remapped_image_rows (dithered or not, at any speed) the count of
\* the integer palette is at most the attribute's max_colors and every byte of
\* the output plane is below that count.
C1_PaletteAndIndicesInRange ==
    Written =>
        /\ remap.int_palette.count <= attr.max_colors
        /\ \A b \in Planes : b >= 0 /\ b < remap.int_palette.count

\* A dithered image of more colours than max_colors, written with a full
\* palette and using its last index.
C1_Witness ==
    /\ Written
    /\ remap.dither_level # 0
    /\ attr.max_colors = 3
    /\ remap.int_palette.count = 3
    /\ 2 \in Planes
    /\ src = BitmapGradient

\* C2: an attribute setter called with an argument out of range
\* (liq_set_max_colors outside 2..256, liq_set_speed outside 1..10,
\* liq_set_quality with target or minimum outside 0..100 or target < minimum,
\* liq_set_min_opacity outside 0..255) returns LIQ_VALUE_OUT_OF_RANGE and
\* leaves every field of the attribute unchanged; with arguments in range it
\* returns LIQ_OK.
OutOfRange(c) ==
    CASE c.name = "liq_set_max_colors" -> c.args[1] < 2 \/ c.args[1] > 256
      [] c.name = "liq_set_speed" -> c.args[1] < 1 \/ c.args[1] > 10
      [] c.name = "liq_set_quality" ->
            \/ c.args[1] < 0 \/ c.args[1] > 100
            \/ c.args[2] < 0 \/ c.args[2] > 100
            \/ c.args[1] < c.args[2]
      [] c.name = "liq_set_min_opacity" -> c.args[1] < 0 \/ c.args[1] > 255
      [] OTHER -> FALSE

AttrSetters == {"liq_set_max_colors", "liq_set_speed", "liq_set_quality",
                "liq_set_min_opacity", "liq_set_last_index_transparent"}

C2_SettersRejectOutOfRange ==
    (call # NULL /\ call.name \in AttrSetters) =>
        IF OutOfRange(call)
        THEN ret = LIQ_VALUE_OUT_OF_RANGE /\ attr = call.before
        ELSE ret = LIQ_OK

\* liq_set_quality refused a minimum above its target, both within 0..100.
C2_Witness ==
    /\ call # NULL
    /\ call.name = "liq_set_quality"
    /\ call.args = <<50, 100>>
    /\ ret = LIQ_VALUE_OUT_OF_RANGE
    /\ attr = call.before

\* C3: liq_set_dithering_level accepts exactly the levels in [0,1]: a call with
\* a level outside returns LIQ_VALUE_OUT_OF_RANGE and leaves the stored level
\* unchanged, a call with a level inside returns LIQ_OK and stores it, so the
\* stored level is always in [0,1].
C3_DitheringLevelInRange ==
    /\ (result # NULL) => (result.dither_level >= 0 /\ result.dither_level <= FS)
    /\ (call # NULL /\ call.name = "liq_set_dithering_level") =>
          IF call.args[1] < 0 \/ call.args[1] > FS
          THEN ret = LIQ_VALUE_OUT_OF_RANGE
               /\ result.dither_level = call.before.dither_level
          ELSE ret = LIQ_OK /\ result.dither_level = call.args[1]

\* C4: at every speed and accepted quality, liq_quantize_image returns no
\* result exactly when the palette error computed after the palette search and
\* the Voronoi refinement exceeds max_mse; a result returned with max_mse below
\* MAX_DIFF carries a palette error that was computed (not negative) and is at
\* most max_mse.
C4_QualityFloor ==
    pc \in {"quantized", "failed"} =>
        /\ (result = NULL) <=> (quantized.palette_error > attr.max_mse)
        /\ (result # NULL /\ attr.max_mse < MAX_DIFF) =>
              /\ result.palette_error >= 0
              /\ result.palette_error <= attr.max_mse

\* A result at a speed with no trials and no Voronoi iterations, under a
\* quality floor: its error could only come from the forced iteration.
C4_Witness ==
    /\ pc = "quantized"
    /\ result # NULL
    /\ attr.max_mse < MAX_DIFF
    /\ attr.voronoi_iterations = 0
    /\ attr.feedback_loop_trials = 0
    /\ result.palette_error > 0

ImageColors ==
    {to_f(to_f_set_gamma(image.gamma), image.rows[row][col]) :
        row \in 0 .. image.height - 1, col \in 0 .. image.width - 1}

MapColors(map) == {map[i].acolor : i \in 1 .. Len(map)}

Lossless == attr.target_mse = 0 /\ attr.max_colors >= Cardinality(ImageColors)

\* C7 as stated: with target_mse 0 and max_colors at least the number of
\* distinct colours of the image, the palette is a permutation of the image's
\* colours and the reported error is 0, at every speed.
C7_LosslessPalette ==
    /\ (pc = "quantized" /\ Lossless) =>
          /\ Len(cmaps[result.palette]) = Cardinality(ImageColors)
          /\ MapColors(cmaps[result.palette]) = ImageColors
          /\ result.palette_error = 0
    /\ (pc = "reported" /\ Lossless) => reported[1] = 0

\* C7 amended: the same at the speeds that do not posterize (1 to 7).
C7_LosslessPaletteUnposterized ==
    attr.min_posterization = 0 => C7_LosslessPalette

\* Three colours kept as they are at a speed that does not posterize.
C7_Witness ==
    /\ pc = "reported"
    /\ Lossless
    /\ attr.min_posterization = 0
    /\ Cardinality(ImageColors) >= 3
    /\ reported[1] = 0

\* The image has a fully transparent pixel.
HasTransparentPixel ==
    \E row \in 0 .. image.height - 1, col \in 0 .. image.width - 1 :
        image.rows[row][col].a = 0

LastEntry(palette) == palette.entries[palette.count]

\* C8 as stated: with last_index_transparent set and a fully transparent pixel
\* in the image, the last entry of the palette is the transparent one.
C8_LastIndexTransparent ==
    (Written /\ attr.last_index_transparent /\ HasTransparentPixel) =>
        LastEntry(remap.int_palette).a < 255

\* The colormap of the result has a fully transparent entry (alpha below
\* 1/256).
HasTransparentEntry ==
    \E i \in 1 .. Len(cmaps[result.palette]) :
        Below1_256(cmaps[result.palette][i].acolor.a)

\* C8 amended: with last_index_transparent set and a fully transparent entry
\* in the colormap of the result, that colormap ends with a fully transparent
\* entry, and the last entry of the delivered palette is not opaque.
C8_TransparentEntryLast ==
    /\ (pc = "quantized" /\ attr.last_index_transparent /\ HasTransparentEntry) =>
          Below1_256(cmaps[result.palette][Len(cmaps[result.palette])].acolor.a)
    /\ (Written /\ attr.last_index_transparent /\ HasTransparentEntry) =>
          LastEntry(remap.int_palette).a < 255

\* A transparent pixel kept as a palette entry of its own, delivered last
\* after two opaque entries.
C8_Witness ==
    /\ Written
    /\ attr.last_index_transparent
    /\ HasTransparentPixel
    /\ HasTransparentEntry
    /\ remap.int_palette.count = 3
    /\ LastEntry(remap.int_palette).a = 0
    /\ remap.int_palette.entries[1].a = 255

\* C9: without last_index_transparent the integer palette delivered after
\* remapping is partitioned: the entries that are not opaque come first, and
\* every entry from num_trans on, the number of leading entries that are not
\* opaque, has alpha 255.
C9_TransparentEntriesFirst ==
    (Written /\ ~attr.last_index_transparent) =>
        \A i \in 1 .. remap.int_palette.count, j \in 1 .. remap.int_palette.count :
            (i < j /\ remap.int_palette.entries[i].a = 255)
                => remap.int_palette.entries[j].a = 255

\* C6: with dither level 0 and the image unchanged, a second remap from the
\* same quantization result delivers the same integer palette and the same
\* index plane as the first; the colormap of the result stays as quantization
\* left it, whatever the remaps did to their own copies.
C6_RepeatedPlainRemapIdentical ==
    /\ (pc \in {"quantized", "remapped", "written", "palette", "reported"}) =>
          cmaps[result.palette] = quantized.map
    /\ (Written /\ remaps >= 1 /\ first.dither_level = 0 /\ remap.dither_level = 0) =>
          /\ remap.int_palette = first.int_palette
          /\ out = first.out

\* A second plain remap whose Voronoi update changed its copy of the colormap.
C6_Witness ==
    /\ Written
    /\ remaps = 1
    /\ first.dither_level = 0
    /\ remap.dither_level = 0
    /\ cmaps[remap.palette] # quantized.map
    /\ Cardinality(Planes) >= 2

\* C10: with a dither level above 0, a second run of create-image, quantize
\* and remap on the same bytes with the same attribute delivers the same
\* palette and index plane as the first, and leaves the generator of the
\* noise in the same state: the noise is the same in both runs.
C10_DitheredRunsIdentical ==
    (Written /\ run > 1 /\ remaps = 0 /\ prev # NULL /\ prev.dither_level # 0
       /\ remap.dither_level = prev.dither_level) =>
        /\ remap.int_palette = prev.int_palette
        /\ out = prev.out
        /\ seed = prev.seed

\* A second dithered run of an image of more colours than the palette holds.
C10_Witness ==
    /\ Written
    /\ run = 2
    /\ remaps = 0
    /\ prev # NULL
    /\ prev.dither_level = FS
    /\ remap.dither_level = FS
    /\ src = BitmapGradient
    /\ Cardinality(Planes) >= 2


\* C11: liq_write_remapped_image on a buffer shorter than width * height
\* returns LIQ_BUFFER_TOO_SMALL and leaves the buffer, the remapping result
\* and the image as they were; on a buffer that is long enough it returns
\* LIQ_OK, the byte at offset row * width + col is the palette index that
\* liq_write_remapped_image_rows writes at (row, col), and the bytes from
\* offset width * height on are as they were.
BufferCall == pc = "buffer" /\ call # NULL /\ call.name = "liq_write_remapped_image"

RowsWritten ==
    liq_write_remapped_image_rows(call.before.result, call.before.image,
        Tabulate([row \in 0 .. call.before.image.height - 1 |->
            Tabulate([col \in 0 .. call.before.image.width - 1 |-> 0])]),
        call.before.heap, call.before.lut, call.before.seed).out

C11_BufferWrite ==
    BufferCall =>
        LET width == call.before.image.width
            height == call.before.image.height
            buffer == call.args[1]
            size == call.args[2]
        IN  IF size < width * height
            THEN /\ ret = LIQ_BUFFER_TOO_SMALL
                 /\ out = buffer
                 /\ remap = call.before.result
                 /\ image = call.before.image
            ELSE /\ ret = LIQ_OK
                 /\ Len(out) = size
                 /\ \A row \in 0 .. height - 1, col \in 0 .. width - 1 :
                        out[row * width + col + 1] = RowsWritten[row][col]
                 /\ \A k \in width * height + 1 .. size : out[k] = buffer[k]

\* A buffer one byte longer than the plane of an image that is wider than
\* high, written with more than one index.
C11_Witness ==
    /\ BufferCall
    /\ call.before.image.width = 3
    /\ call.before.image.height = 2
    /\ call.args[2] = 7
    /\ ret = LIQ_OK
    /\ Cardinality({out[k] : k \in 1 .. 6}) > 1

\* A buffer one byte shorter than the plane.
C11_Refused == BufferCall /\ call.args[2] = 5 /\ ret = LIQ_BUFFER_TOO_SMALL

\* C12: liq_image_create_rgba_rows and liq_image_create_rgba return no image
\* when the width or the height is zero or negative, the gamma is below 0 or
\* above 1, or the attribute or the pixels are null, and liq_image_create_rgba
\* also when the flags have LIQ_OWN_ROWS; an image they return has the width
\* and the height of the call, both at least 1, and a gamma above 0 and at
\* most 1, which is 0.45455 when the call gave 0 and the gamma of the call
\* otherwise.
CreateCall ==
    pc = "created" /\ call.name \in {"liq_image_create_rgba_rows", "liq_image_create_rgba"}

C12_Refused ==
    /\ CreateCall
    /\ call.name = "liq_image_create_rgba"
    /\ call.args.width > 0 /\ call.args.height > 0 /\ call.args.gamma = 100000
    /\ call.args.attr # NULL /\ call.args.pixels # NULL
    /\ call.args.flags = LIQ_OWN_ROWS
    /\ image = NULL

\* C13: the Voronoi loop of pngquant_quantize makes at most as many passes as
\* the iterations it starts with (voronoi_iterations, or 1 when forced),
\* whatever errors the passes give.
VoronoiRunning == pc = "voronoi"

Colormap == cmaps[result.palette]

C14_ColormapLength ==
    (pc = "quantized" /\ result # NULL) =>
        Len(Colormap) >= 2 /\ Len(Colormap) <= attr.max_colors

\* C14, amended: the colormap has at least 1 and at most max_colors entries,
\* and has 1 entry for the image of one colour quantized without a target
\* error.
C14_ColormapLengthFromOne ==
    (pc = "quantized" /\ result # NULL) =>
        /\ Len(Colormap) >= 1
        /\ Len(Colormap) <= attr.max_colors
        /\ (src = BitmapFlat /\ attr.target_mse = 0) => Len(Colormap) = 1

\* The image of one colour was quantized to a colormap of one entry.
C14_Witness ==
    /\ pc = "quantized"
    /\ result # NULL
    /\ src = BitmapFlat
    /\ Len(Colormap) = 1
    /\ attr.max_colors = 3

\* C17: liq_set_speed(s) with s in 1..10 sets feedback_loop_trials to
\* max(56 - 9s, 0), voronoi_iterations to i + i*i/2 with i = max(8 - s, 0),
\* min_posterization to 1 exactly when s >= 8, use_contrast_maps exactly when
\* s <= 7, use_dither_map exactly when s <= 5 and max_histogram_entries to
\* 2^17 + 2^18 (10 - s); it changes no other field of the attribute; and the
\* attribute as created is the one liq_set_speed(3) leaves.
SpeedCall == call # NULL /\ call.name = "liq_set_speed" /\ call.args[1] \in 1 .. 10

SpeedFields ==
    {"feedback_loop_trials", "voronoi_iterations", "min_posterization",
     "use_contrast_maps", "use_dither_map", "max_histogram_entries"}

SpeedValues(s) ==
    /\ attr.feedback_loop_trials = IF 56 - 9 * s > 0 THEN 56 - 9 * s ELSE 0
    /\ attr.voronoi_iterations =
           IF s >= 8 THEN 0 ELSE (8 - s) + ((8 - s) * (8 - s)) \div 2
    /\ attr.min_posterization = IF s >= 8 THEN 1 ELSE 0
    /\ attr.use_contrast_maps = (s <= 7)
    /\ attr.use_dither_map = (s <= 5)
    /\ attr.max_histogram_entries = 131072 + 262144 * (10 - s)

CreatedAtSpeed3 == (call = NULL /\ pc = "attr") => liq_set_speed(attr, 3).attr = attr

C17_SpeedSetsListedFields ==
    /\ SpeedCall =>
          /\ SpeedValues(call.args[1])
          /\ \A f \in DOMAIN attr \ SpeedFields : attr[f] = call.before[f]
    /\ CreatedAtSpeed3

\* C17, amended: liq_set_speed also sets voronoi_iteration_limit, to
\* 1/2^(23 - s), and changes no field besides these seven.
C17_SpeedSetsIterationLimitToo ==
    /\ SpeedCall =>
          /\ SpeedValues(call.args[1])
          /\ attr.voronoi_iteration_limit = 2 ^ (23 - call.args[1])
          /\ \A f \in DOMAIN attr \ (SpeedFields \cup {"voronoi_iteration_limit"}) :
                 attr[f] = call.before[f]
    /\ CreatedAtSpeed3

\* liq_set_speed(7) on an attribute whose max_colors and min_opaque_val were
\* set before: the iteration limit changed with the listed fields.
C17_Witness ==
    /\ SpeedCall
    /\ call.args[1] = 7
    /\ call.before.max_colors = 3
    /\ attr.max_colors = 3
    /\ attr.voronoi_iterations = 1
    /\ attr.voronoi_iteration_limit # call.before.voronoi_iteration_limit

\* C18: find_best_palette ends: every trial takes 1, 6 or 9 from its trial
\* counter, so that it makes at most feedback_loop_trials trials when that is
\* positive; when it is 0 it makes exactly one median cut and no Voronoi
\* iteration.
Searching == pc = "search" /\ frame.trial # NULL

C18_NoTrials == Searching /\ attr.feedback_loop_trials = 0 /\ frame.done

\* C19: a trial keeps the new colormap exactly when none is kept yet, or its
\* error is below least_error, or its error is at most target_mse and it has
\* fewer colours than max_colors; then max_colors becomes the lesser of the
\* colours plus 1 and max_colors, and the trials drop by 1.  Otherwise the
\* kept colormap, least_error and max_colors stay, every adjusted weight
\* becomes (perceptual + adjusted) / 2, the overshoot becomes 1, and the
\* trials drop by 6, or by 9 when the error is above 4 least_error.
\* max_colors never exceeds that of the attribute.
Tried == Searching /\ frame.trial.viter

TrialAccepted ==
    \/ frame.trial.before.acolormap = NULL
    \/ frame.trial.total_error < frame.trial.before.least_error
    \/ /\ frame.trial.total_error <= attr.target_mse
       /\ Len(frame.trial.newmap) < frame.trial.before.max_colors

C19_TrialOutcome ==
    /\ pc = "search" => frame.max_colors <= attr.max_colors
    /\ Tried =>
          IF TrialAccepted
          THEN /\ frame.acolormap = frame.trial.newmap
               /\ frame.least_error = frame.trial.total_error
               /\ frame.max_colors =
                      IF Len(frame.trial.newmap) + 1 < frame.trial.before.max_colors
                      THEN Len(frame.trial.newmap) + 1
                      ELSE frame.trial.before.max_colors
               /\ frame.feedback_loop_trials = frame.trial.before.feedback_loop_trials - 1
          ELSE /\ frame.acolormap = frame.trial.before.acolormap
               /\ frame.least_error = frame.trial.before.least_error
               /\ frame.max_colors = frame.trial.before.max_colors
               /\ \A j \in DOMAIN frame.hist :
                      frame.hist[j].adjusted_weight =
                          (frame.trial.hist[j].perceptual_weight
                             + frame.trial.hist[j].adjusted_weight) \div 2
               /\ frame.target_mse_overshoot = OvScale
               /\ frame.feedback_loop_trials =
                      frame.trial.before.feedback_loop_trials
                        - (IF frame.trial.total_error > 4 * frame.trial.before.least_error
                           THEN 9 ELSE 6)

\* A colormap of fewer colours than max_colors was kept although its error
\* was not below the least, and max_colors went below the attribute's.
C19_Witness ==
    /\ Tried
    /\ frame.trial.before.acolormap # NULL
    /\ frame.trial.total_error >= frame.trial.before.least_error
    /\ TrialAccepted
    /\ frame.max_colors < attr.max_colors

\* A colormap was turned down for an error above four times the least.
C19_Rejected ==
    /\ Tried
    /\ ~TrialAccepted
    /\ frame.trial.total_error > 4 * frame.trial.before.least_error

\* C20: every trial calls viter_do_iteration except the first one when
\* target_mse is above 0; where it is called, the adjusted weight of every
\* entry of the histogram is multiplied by sqrt(1 + diff), diff being the
\* error of the entry, so that an entry of error 0 keeps its weight.
FirstOfTarget == frame.trial.before.acolormap = NULL /\ attr.target_mse > 0

Sqrt1(diff) == ISqrt(D2 + diff)

C20_IterationSkippedOnFirst ==
    Searching =>
        /\ frame.trial.viter = (~FirstOfTarget /\ attr.feedback_loop_trials > 0)
        /\ frame.trial.viter =>
              \A j \in DOMAIN frame.trial.hist :
                 frame.trial.hist[j].adjusted_weight =
                     (frame.trial.before.hist[j].adjusted_weight
                        * Sqrt1(frame.trial.diff[j])) \div FS

\* C20, amended: every trial calls viter_do_iteration, which gives it the
\* error of the new colormap; on the first trial when target_mse is above 0
\* the call has no callback and the weights stay, on every other trial the
\* callback makes the adjusted weight of every entry (perceptual + adjusted)
\* sqrt(1 + diff), so that an entry of error 0 gets perceptual + adjusted.
C20_IterationWithoutCallbackOnFirst ==
    (Searching /\ attr.feedback_loop_trials > 0) =>
        /\ frame.trial.viter
        /\ frame.viter_runs = frame.trials_run
        /\ frame.trial.total_error >= 0
        /\ frame.trial.callback = ~FirstOfTarget
        /\ \A j \in DOMAIN frame.trial.hist :
              frame.trial.hist[j].adjusted_weight =
                  IF FirstOfTarget THEN frame.trial.before.hist[j].adjusted_weight
                  ELSE ((frame.trial.before.hist[j].perceptual_weight
                           + frame.trial.before.hist[j].adjusted_weight)
                        * Sqrt1(frame.trial.diff[j])) \div FS
        /\ \A j \in DOMAIN frame.trial.hist :
              (~FirstOfTarget /\ frame.trial.diff[j] = 0) =>
                  frame.trial.hist[j].adjusted_weight =
                      frame.trial.before.hist[j].perceptual_weight
                        + frame.trial.before.hist[j].adjusted_weight

\* A trial with the callback on a histogram with an entry of error 0 and an
\* entry of another error.
C20_Witness ==
    /\ Tried
    /\ frame.trial.callback
    /\ \E j \in DOMAIN frame.trial.diff : frame.trial.diff[j] = 0
    /\ \E j \in DOMAIN frame.trial.diff : frame.trial.diff[j] > 0

\* The first trial with a target error: the iteration ran without callback.
C20_FirstOfTarget ==
    /\ Tried
    /\ FirstOfTarget
    /\ ~frame.trial.callback
    /\ frame.trial.total_error > 0

\* C15: installing, replacing or removing the log and flush callbacks
\* changes nothing but the callback fields of the attribute, and the image,
\* the result, the colormap, the error codes and the index plane are those
\* the same calls give on the attribute without callbacks.
Silent(a) ==
    [a EXCEPT !.log_callback = NULL, !.log_callback_user_info = NULL,
              !.log_flush_callback = NULL, !.log_flush_callback_user_info = NULL]

SilentImage ==
    liq_image_create_rgba_rows(Silent(attr), src.rows, src.width, src.height,
                               src.gamma, 0, 0)

SilentQuantized == liq_quantize_image(Silent(attr), SilentImage, <<>>)

SilentWritten ==
    LET Write(q, r) ==
            liq_write_remapped_image_rows(r.res, q.image,
                [row \in 0 .. src.height - 1 |-> [col \in 0 .. src.width - 1 |-> 0]],
                r.heap, to_f_set_gamma(q.image.gamma), 1)
        Remap(q) ==
            CHOOSE val \in {Write(q, x) : x \in
                {liq_remap([q.result EXCEPT !.dither_level = result.dither_level],
                           q.image, q.heap)}} : TRUE
    IN  CHOOSE val \in {Remap(x) : x \in {SilentQuantized}} : TRUE

C15_LogCallbacksAdvisory ==
    /\ (call # NULL /\ call.name = "liq_set_log_callback") =>
          attr = [call.before EXCEPT !.log_callback = call.args[1],
                                     !.log_callback_user_info = call.args[2]]
    /\ (call # NULL /\ call.name = "liq_set_log_flush_callback") =>
          attr = [call.before EXCEPT !.log_flush_callback = call.args[1],
                                     !.log_flush_callback_user_info = call.args[2]]
    /\ pc = "image" => image = SilentImage
    /\ pc = "failed" =>
          \E q \in {SilentQuantized} :
             q.result = NULL /\ quantized.palette_error = q.palette_error
    /\ pc = "quantized" =>
          \E q \in {SilentQuantized} :
             /\ q.result # NULL
             /\ result = [q.result EXCEPT !.dither_level = result.dither_level]
             /\ quantized.map = q.heap[q.result.palette]
             /\ quantized.palette_error = q.palette_error
             /\ image = q.image
    /\ pc = "written" =>
          \E w \in {SilentWritten} :
             /\ ret = w.err
             /\ out = w.out
             /\ remap = w.result
             /\ cmaps = w.heap
             /\ image = w.image

\* A dithered plane was written with a log callback and a flush callback
\* installed, which received the messages of the quantization.
C15_Witness ==
    /\ pc = "written"
    /\ attr.log_callback = Pointer("log_callback_buferred")
    /\ attr.log_flush_callback # NULL
    /\ remap.dither_level = FS
    /\ Len(log) >= 3
    /\ \E k \in 1 .. Len(log) : log[k].msg # NULL /\ log[k].msg.args # <<>>

\* The callback was removed again: the flush callback was called, and the
\* quantization that followed logged nothing.
C15_Removed ==
    /\ pc = "quantized"
    /\ attr.log_callback = NULL
    /\ attr.log_flush_callback # NULL
    /\ Len(log) = 1
    /\ log[1].msg = NULL

\* C16: every object derived from the attribute (its copies, the images,
\* their row vectors and maps, the results and the remapping results) is
\* allocated by the malloc and released by the free stored in the
\* attribute.
C16_AllocatorPair == \A e \in allocs : e.fn \in {attr.malloc, attr.free}

\* The statements followed one by one leave what the call leaves as a whole.
RowsStepwise ==
    (pc = "written" /\ frame # NULL /\ frame.fn = "liq_write_remapped_image_rows")
        => \E w \in {liq_write_remapped_image_rows(frame.entered.result,
                          frame.entered.image, frame.entered.out, frame.entered.heap,
                          frame.entered.lut, frame.entered.seed)} :
              /\ remap = w.result
              /\ image = w.image
              /\ out = w.out
              /\ cmaps = w.heap
              /\ gamma_lut = w.lut
              /\ seed = w.seed

\* remap_to_palette_floyd is running or has returned.
FloydRunning ==
    /\ pc \in {"rows", "written"}
    /\ frame # NULL
    /\ frame.fn = "liq_write_remapped_image_rows"
    /\ frame.c # NULL

\* The k-th pixel of a plane of cols columns in zig-zag order.
Zigzag(k, cols) ==
    LET row == (k - 1) \div cols
    IN  << row, IF row % 2 = 0 THEN (k - 1) % cols ELSE cols - 1 - ((k - 1) % cols) >>

\* C21: remap_to_palette_floyd traverses even rows left to right and odd
\* rows right to left, stores an index for every pixel exactly once, and
\* reads and writes the two error rows only at the indices 0 .. cols+1.
C21_ZigzagOnce ==
    FloydRunning =>
        /\ \A k \in 1 .. Len(frame.visited) : frame.visited[k] = Zigzag(k, frame.c.cols)
        /\ frame.fs_direction <=> frame.row % 2 = 0
        /\ frame.touched \subseteq 0 .. frame.c.cols + 1
        /\ frame.at = "returned" => Len(frame.visited) = frame.c.rows * frame.c.cols

\* A plane of several rows and columns was dithered to the end.
C21_Witness ==
    /\ FloydRunning
    /\ frame.at = "returned"
    /\ frame.c.rows >= 2
    /\ frame.c.cols >= 3
    /\ Len(frame.visited) = frame.c.rows * frame.c.cols

\* A pixel of the row being traversed was processed last.
FloydStepped ==
    /\ FloydRunning
    /\ frame.at \in {"pixel", "turn"}
    /\ frame.step # NULL
    /\ frame.step.row = frame.row

\* What element i of an error row gained.
FloydGain(after, before, i) ==
    [ r |-> after[i].r - before[i].r, g |-> after[i].g - before[i].g,
      b |-> after[i].b - before[i].b, a |-> after[i].a - before[i].a ]

\* (err * num) / 16.0f
FloydShare(err, num) ==
    [ r |-> Quot(err.r * num, 16), g |-> Quot(err.g * num, 16),
      b |-> Quot(err.b * num, 16), a |-> Quot(err.a * num, 16) ]

\* C22: of the scaled residual of a pixel, 7 sixteenths go to the pixel
\* processed next in the row, 5 to the pixel below, 3 to the pixel below and
\* behind, 1 to the pixel below and ahead, and nothing elsewhere; the four
\* shares add up to the residual (each share is rounded toward zero, so by
\* less than one unit of the model each); the error row of the next row is
\* zero when a row is begun.
C22_FloydShares ==
    /\ FloydStepped =>
           LET col == frame.step.col
               dir == IF frame.step.fs_direction THEN 1 ELSE -1
               err == frame.st.err
               this == [i \in 0 .. frame.c.cols + 1 |->
                           FloydGain(frame.st.thiserr, frame.step.thiserr, i)]
               next == [i \in 0 .. frame.c.cols + 1 |->
                           FloydGain(frame.st.nexterr, frame.step.nexterr, i)]
               Whole(ch) == this[col + 1 + dir][ch] + next[col + 1][ch]
                            + next[col + 1 - dir][ch] + next[col + 1 + dir][ch]
           IN  /\ this[col + 1 + dir] = FloydShare(err, 7)
               /\ next[col + 1] = FloydShare(err, 5)
               /\ next[col + 1 - dir] = FloydShare(err, 3)
               /\ next[col + 1 + dir] = FloydShare(err, 1)
               /\ \A i \in 0 .. frame.c.cols + 1 :
                      /\ i # col + 1 + dir => this[i] = ZeroErr
                      /\ i \notin {col, col + 1, col + 2} => next[i] = ZeroErr
               /\ \A ch \in {"r", "g", "b", "a"} : Abs(err[ch] - Whole(ch)) <= 3
    /\ (FloydRunning /\ frame.at = "pixel" /\ ~FloydStepped) =>
           \A i \in 0 .. frame.c.cols + 1 : frame.st.nexterr[i] = ZeroErr

\* A pixel of a row traversed right to left left a residual in every channel
\* of colour.
C22_Witness ==
    /\ FloydStepped
    /\ ~frame.step.fs_direction
    /\ frame.step.col >= 1
    /\ Abs(frame.st.err.r) >= 16
    /\ Abs(frame.st.err.a) >= 16

\* liq_write_remapped_image_rows is running with a dither level other than
\* 0, or has returned.
RowsRunning ==
    /\ pc \in {"rows", "written"}
    /\ frame # NULL
    /\ frame.fn = "liq_write_remapped_image_rows"

\* C23: with a dither level other than 0, remap_to_palette followed by
\* update_dither_map runs exactly when use_dither_map is set and the image
\* has an edges map and no dither map, before set_rounded_palette and
\* before remap_to_palette_floyd, which then gets output_image_is_remapped
\* set; afterwards the image has a dither map and no edges map, and a later
\* remap of the image does not run update_dither_map again.
C23_DitherMapOnce ==
    RowsRunning =>
        LET e == frame.entered
            generated == /\ e.result.use_dither_map
                         /\ e.image.edges # NULL
                         /\ e.image.dither_map = NULL
            order == (IF generated THEN <<"remap_to_palette", "update_dither_map">>
                      ELSE <<>>)
                     \o <<"set_rounded_palette", "remap_to_palette_floyd">>
        IN  /\ frame.generate_dither_map = generated
            /\ Len(frame.called) <= Len(order)
            /\ frame.called = SubSeq(order, 1, Len(frame.called))
            /\ frame.at = "returned" => frame.called = order
            /\ frame.c # NULL => frame.c.output_image_is_remapped = generated
            /\ (generated /\ frame.at # "generate") =>
                   (image.dither_map # NULL /\ image.edges = NULL)
            \* every earlier remap of this caller was a dithered one
            /\ remaps > 0 => ~generated

\* The second remap of an image whose first remap made the dither map.
C23_Witness ==
    /\ RowsRunning
    /\ frame.at = "returned"
    /\ remaps > 0
    /\ frame.entered.result.use_dither_map
    /\ frame.entered.image.dither_map # NULL
    /\ frame.called = <<"set_rounded_palette", "remap_to_palette_floyd">>

\* Every value of the map lies in [0,1]; no map is in range too.
InUnit(map) == map = NULL \/ \A k \in DOMAIN map : map[k] >= 0 /\ map[k] <= FS

\* C24: every value of the edges map built by contrast_maps and of the
\* dither map left by update_dither_map lies in [0,1], so the dither level
\* remap_to_palette_floyd reads from the map is never negative and never
\* above 1.
C24_DitherMapsInUnit ==
    /\ image # NULL => (InUnit(image.edges) /\ InUnit(image.dither_map))
    /\ FloydRunning => InUnit(frame.c.dither_map)

\* sort_palette has returned.
SortReturned == pc = "attr" /\ frame # NULL /\ frame.fn = "sort_palette"

\* The entries lo .. hi of the palette are in descending order of popularity.
Descending(pal, lo, hi) ==
    \A i \in lo .. hi - 1 : pal[i].popularity >= pal[i + 1].popularity

\* The entries lo .. hi of the palette are in ascending order of popularity.
Ascending(pal, lo, hi) ==
    \A i \in lo .. hi - 1 : pal[i].popularity <= pal[i + 1].popularity

\* The branch of lines 405-418 was taken.
SortedLast ==
    /\ frame.options.last_index_transparent
    /\ \E i \in 1 .. Len(frame.map) : Below1_256(frame.map[i].acolor.a)

\* The number of entries that are not opaque.
NumTransparent(pal) == Cardinality({i \in 1 .. Len(pal) : Below255_256(pal[i].acolor.a)})

\* The palettes hold the same entries the same number of times.
Permuted(p, q) ==
    /\ Len(p) = Len(q)
    /\ \A e \in Range(p) \cup Range(q) :
           Cardinality({i \in 1 .. Len(p) : p[i] = e})
               = Cardinality({i \in 1 .. Len(q) : q[i] = e})

\* C25: after sort_palette the entries are in descending order of
\* popularity within each group (all but the last entry with
\* last_index_transparent and a fully transparent entry; else the leading
\* entries that are not opaque and the trailing opaque ones), and the
\* entries are those of before.
C25_DescendingPopularity ==
    SortReturned =>
        /\ Permuted(frame.map, frame.sorted)
        /\ IF SortedLast
           THEN Descending(frame.sorted, 1, Len(frame.sorted) - 1)
           ELSE /\ Descending(frame.sorted, 1, NumTransparent(frame.sorted))
                /\ Descending(frame.sorted, NumTransparent(frame.sorted) + 1,
                              Len(frame.sorted))

\* C25, amended: the order within each group is ascending; a fully
\* transparent entry is last in the first case, and the entries that are
\* not opaque are the leading ones in the second.
C25_AscendingPopularity ==
    SortReturned =>
        /\ Permuted(frame.map, frame.sorted)
        /\ IF SortedLast
           THEN /\ Ascending(frame.sorted, 1, Len(frame.sorted) - 1)
                /\ Below1_256(frame.sorted[Len(frame.sorted)].acolor.a)
           ELSE /\ Ascending(frame.sorted, 1, NumTransparent(frame.sorted))
                /\ Ascending(frame.sorted, NumTransparent(frame.sorted) + 1,
                             Len(frame.sorted))
                /\ \A i \in 1 .. NumTransparent(frame.sorted) :
                       Below255_256(frame.sorted[i].acolor.a)

\* Both groups hold entries of different popularities that were given in
\* another order.
C25_Witness ==
    /\ SortReturned
    /\ ~SortedLast
    /\ Len(frame.sorted) = 4
    /\ NumTransparent(frame.sorted) = 2
    /\ frame.sorted[1].popularity < frame.sorted[2].popularity
    /\ frame.sorted[3].popularity < frame.sorted[4].popularity
    /\ frame.map # frame.sorted

\* The driver is in its loop over the files or past it.
InBatch == pc = "batch" /\ frame # NULL /\ frame.fn = "main"

\* C26: with files processed in parallel and logging on, the messages of an
\* iteration are appended only to the buffer of that iteration, while it is
\* in scope; the buffer of an iteration whose attribute was destroyed holds
\* no message; and a buffer never holds LOG_BUFFER_SIZE bytes or more.
C26_OwnBufferFlushed ==
    InBatch =>
        /\ ~frame.crashed
        /\ \A e \in frame.appends : e.by = e.buf /\ e.live
        /\ \A i \in frame.destroyed : frame.bufs[i].held = <<>>
        /\ \A i \in 1 .. frame.num_files :
               frame.bufs[i] # NULL =>
                   (frame.bufs[i].buf_used < LOG_BUFFER_SIZE
                      /\ frame.bufs[i].top < LOG_BUFFER_SIZE)

\* C27: every conversion of a pixel made for an image uses the gamma table
\* that was set for that conversion, also while other threads set the
\* table for another gamma.
C27_ConversionsUseOwnGamma ==
    InBatch =>
        \A c \in frame.conversions : c.f = to_f(to_f_set_gamma(c.gamma), c.px)

\* remap_to_palette has returned.
PlainReturned ==
    /\ frame # NULL
    /\ frame.fn = "remap_to_palette"
    /\ frame.at = "returned"

\* The pixels of the image whose alpha is below 1/256.
PlainTransparent(img, lut) ==
    {k \in 0 .. img.width * img.height - 1 :
        Below1_256(to_f(lut, img.rows[k \div img.width][k % img.width]).a)}

\* C28: the plain remapper does not depend on the distribution of the rows
\* over the threads nor on their interleaving: a thread updates only its own
\* elements of average_color, every pixel is stored once, and the index
\* plane, the count of remapped pixels, the error and the palette are those
\* of the run of one thread; the pixels of alpha below 1/256 have the
\* transparent index and are not counted in the average.
C28_PlainIndependentOfTeam ==
    /\ (frame # NULL /\ frame.fn = "remap_to_palette") =>
          /\ \A u \in frame.updated :
                 u.slot \div Colors(frame.entered.map) = u.by
          /\ \A i, j \in 1 .. Len(frame.written) :
                 (frame.written[i].row = frame.written[j].row
                    /\ frame.written[i].col = frame.written[j].col) => i = j
    /\ PlainReturned =>
          LET e == frame.entered
              pixels == e.image.width * e.image.height
              transparent == PlainTransparent(e.image, to_f_set_gamma(e.image.gamma))
              single == remap_to_palette(e.image, e.out, e.map, e.min_opaque_val)
          IN  /\ Len(frame.written) = pixels
              /\ frame.result.out = single.out
              /\ frame.result.error = single.error
              /\ frame.result.map = single.map
              /\ frame.result.remapped_pixels = pixels - Cardinality(transparent)
              /\ \A k \in transparent :
                     frame.result.out[k \div e.image.width][k % e.image.width]
                         = frame.transparent_ind

\* A team of two threads has remapped an image with a transparent and an
\* opaque pixel, each thread a part of it.
C28_Witness ==
    /\ PlainReturned
    /\ frame.max_threads = 2
    /\ {frame.written[i].by : i \in 1 .. Len(frame.written)} = {0, 1}
    /\ PlainTransparent(frame.entered.image,
                        to_f_set_gamma(frame.entered.image.gamma)) # {}
    /\ frame.result.remapped_pixels > 0
    /\ frame.result.map # frame.entered.map

\* liq_image_destroy has returned.
ImageDestroyed == frame # NULL /\ frame.fn = "liq_image_destroy"

\* The buffers an image owns: the object, the pixels and the rows when the
\* flag was given, and the maps it holds.
ImageOwned(img) ==
    {"liq_image"}
    \cup (IF img.free_pixels THEN {"pixels"} ELSE {})
    \cup (IF img.free_rows THEN {"rows"} ELSE {})
    \cup (IF img.noise # NULL THEN {"noise"} ELSE {})
    \cup (IF img.edges # NULL THEN {"edges"} ELSE {})
    \cup (IF img.dither_map # NULL THEN {"dither_map"} ELSE {})

\* The number of times liq_image_destroy released buffer b.
TimesFreed(b) == Cardinality({i \in DOMAIN frame.freed : frame.freed[i] = b})

\* C29: liq_image_destroy releases every buffer the image owns exactly once:
\* the pixels and the rows when owned, the noise, edges and dither maps when
\* present, and the image object.
C29_OwnedReleasedOnce ==
    ImageDestroyed =>
        /\ \A b \in ImageOwned(frame.before) : TimesFreed(b) = 1
        /\ \A i \in DOMAIN frame.freed : frame.freed[i] \in ImageOwned(frame.before)

\* An image was created with the attribute as it is.
ImageCreated == pc = "image" /\ image # NULL

\* C30: whenever image creation runs the opacity workaround (min_opacity
\* 0 .. 254) the divisor min_opaque_val - almost_opaque_val of modify_alpha
\* is not zero, and with the default min_opacity (255) image creation leaves
\* the caller's pixels as they are.
C30_DivisorNonzero ==
    ImageCreated =>
        /\ image.modified => ModifyAlphaDivisor(attr.min_opaque_val) # 0
        /\ attr.min_opaque_val = FS => (~image.modified /\ image.rows = src.rows)

=============================================================================
